---- MODULE Spec2Model ----
(***************************************************************************)
(* mcm-alert-central: the unified notification service                     *)
(* (src/services/simplePushService.ts, class UnifiedNotificationService),  *)
(* the Dashboard page state (src/pages/Dashboard.tsx) and the OneSignal    *)
(* relay's priority mapping, as state machines over small input sets.      *)
(***************************************************************************)
EXTENDS Integers, Sequences, FiniteSets, TLC

\* ---------------------------------------------------------------------
\* Bounds of the model (not program constants)
\* ---------------------------------------------------------------------
MaxLocal == 2
MaxRegs == 2
MaxEvents == 1
MaxAdds == 102
MaxInits == 2
NumRows == 1
MaxCached == 2
MaxItems == 1
MaxApi == 1
MaxClicks == 2
MaxShown == 1
MaxDismiss == 2
MaxCalls == 2
MaxBurst == 50

\* ---------------------------------------------------------------------
\* Program constants
\* ---------------------------------------------------------------------
CacheCap == 100
\* Dashboard: prev.slice(0, 49) before a new item is put in front
DashKeep == 49
\* OneSignal numeric priorities
PriorityHigh == 10
PriorityMedium == 5
PriorityLow == 1
\* sendNotification(subscription, payload, retries = 3)
RetryLimit == 3
\* setTimeout(resolve, 1000 * (4 - retries))
BackoffStep == 1000

\* ---------------------------------------------------------------------
\* Input sets
\* ---------------------------------------------------------------------
\* primary keys of the notification table
RowIds == 1..NumRows
Callbacks == {"cbA", "cbB"}
\* listeners whose body throws when invoked
Throwing == {"cbB"}
Audiences == {"inApp", "push"}
Times == {1}
\* components that call initialize() on mount
Callers == {"shell", "overlay"}
Permissions == {"default", "granted", "denied"}

TestId(t) == 1000 + t
PushId(t) == 2000 + t

VARIABLES
  \* UnifiedNotificationService fields
  inAppListeners,
  pushListeners,
  localNotifications,
  isInitialized,
  isSupabaseAvailable,
  isSupabaseConnected,
  supabaseSubscription,
  serviceWorkerRegistration,
  pushSubscription,
  \* the in-flight initialize() call of each caller
  initTask,
  \* the browser: worker API present, Notification.permission, calls of
  \* navigator.serviceWorker.register, 'message' handlers attached
  pushSupported,
  permission,
  registerCalls,
  swHandlers,
  \* the database client: realtime channels open, channels created so far
  channels,
  channelsOpened,
  \* the notification table, the realtime events not yet delivered to this
  \* session, the markAsRead / markAllAsRead updates not yet settled
  db,
  realtime,
  markPending,
  markAllPending,
  \* Dashboard component state (useState) and its requests in flight
  notifications,
  unreadCount,
  searchTerm,
  filterType,
  filterPriority,
  isLoading,
  loadTask,
  loadData,
  ackPending,
  ackAllPending,
  dashRealtime,
  \* the OneSignal relay: the request being served and its response
  relayReq,
  relayOut,
  \* the push_subscriptions table
  subscriptions,
  \* the serverless functions: the last request, its response, and the
  \* fan-out invocation in progress
  fnReq,
  fnOut,
  fanout,
  \* the service worker: window clients, displayed notifications, windows
  \* opened by clients.openWindow, and the last event handled
  swClients,
  swShown,
  swOpened,
  swEvent,
  \* the arguments of the last sendTestNotification call
  testCall,
  \* InAppNotificationSystem: the notifications state of the overlay and
  \* its dismissNotification calls
  overlayNotifications,
  dismissTasks,
  \* NotificationSettingsDialog: isLoading, lastError, the subscribed flag
  \* of status, and its handler calls
  dialogIsLoading,
  dialogLastError,
  dialogStatus,
  dialogTasks,
  \* App: the runs of the startup effect, the event listeners they install,
  \* the running intervals and window.healthCheckInterval
  shellRuns,
  eventListeners,
  intervals,
  healthCheckInterval,
  \* registerServiceWorker: the page's view of the ServiceWorkerRegistration
  \* and of navigator.serviceWorker.controller, and the calls in progress
  registration,
  registerTasks,
  \* Dashboard: the sendTestNotification call in progress, and whether the
  \* effect of the first render has run
  dashTest,
  \* closures handed out by addInAppListener / addPushListener
  closures,
  deregistered,
  \* the last operation, its argument, its result and the listeners it invoked
  lastOp,
  \* Date.now()
  clock

listenerVars == <<inAppListeners, pushListeners, closures, deregistered>>
connVars == <<isInitialized, isSupabaseAvailable, isSupabaseConnected,
              supabaseSubscription, serviceWorkerRegistration, pushSubscription>>
dbVars == <<db, realtime, markPending, markAllPending>>
envVars == <<initTask, pushSupported, permission, registerCalls, swHandlers,
             channels, channelsOpened, dbVars>>
vars == <<inAppListeners, pushListeners, localNotifications, isInitialized,
          isSupabaseAvailable, isSupabaseConnected, supabaseSubscription,
          serviceWorkerRegistration, pushSubscription, initTask, pushSupported,
          permission, registerCalls, swHandlers, channels, channelsOpened,
          db, realtime, markPending, markAllPending,
          notifications, unreadCount, searchTerm, filterType, filterPriority,
          isLoading, loadTask, loadData, ackPending, ackAllPending,
          dashRealtime, relayReq, relayOut,
          subscriptions, fnReq, fnOut, fanout,
          swClients, swShown, swOpened, swEvent,
          testCall, overlayNotifications, dismissTasks,
          dialogIsLoading, dialogLastError, dialogStatus, dialogTasks,
          shellRuns, eventListeners, intervals, healthCheckInterval,
          registration, registerTasks, dashTest,
          closures, deregistered, lastOp, clock>>
filterVars == <<searchTerm, filterType, filterPriority>>
dashVars == <<notifications, unreadCount, filterVars, isLoading, loadTask,
              loadData, ackPending, ackAllPending, dashRealtime>>
relayVars == <<relayReq, relayOut>>
fnVars == <<subscriptions, fnReq, fnOut, fanout>>
workerVars == <<swClients, swShown, swOpened, swEvent>>
\* the serverless functions other than the relay, and the service worker
overlayVars == <<overlayNotifications, dismissTasks>>
dialogVars == <<dialogIsLoading, dialogLastError, dialogStatus, dialogTasks>>
shellVars == <<shellRuns, eventListeners, intervals, healthCheckInterval>>
\* the components of the user interface
regVars == <<registration, registerTasks>>
extraVars == <<regVars, dashTest>>
uiVars == <<testCall, overlayVars, dialogVars, shellVars, extraVars>>
edgeVars == <<fnVars, workerVars, uiVars>>
\* every field of the unified service and of the browser it runs in
serviceVars == <<listenerVars, connVars, localNotifications, initTask,
                 pushSupported, permission, registerCalls, swHandlers, channels,
                 channelsOpened, markPending, markAllPending>>

\* ---------------------------------------------------------------------
\* Helpers
\* ---------------------------------------------------------------------
Range(s) == {s[i] : i \in 1..Len(s)}

Min(a, b) == IF a < b THEN a ELSE b

RECURSIVE Filter(_, _)
\* Array.prototype.filter(l => l !== callback)
Filter(s, cb) ==
  IF s = <<>> THEN <<>>
  ELSE IF Head(s) = cb THEN Filter(Tail(s), cb)
       ELSE <<Head(s)>> \o Filter(Tail(s), cb)

RECURSIVE Count(_, _)
Count(s, cb) ==
  IF s = <<>> THEN 0
  ELSE (IF Head(s) = cb THEN 1 ELSE 0) + Count(Tail(s), cb)

\* Array.prototype.slice(0, n)
Slice(s, n) == SubSeq(s, 1, Min(Len(s), n))

\* Array.prototype.findIndex(n => n.id === id); 0 stands for -1
FindIndex(s, id) ==
  IF \E i \in 1..Len(s) : s[i].id = id
  THEN CHOOSE i \in 1..Len(s) :
         /\ s[i].id = id
         /\ \A j \in 1..(i - 1) : s[j].id # id
  ELSE 0

RECURSIVE InvokeAllStopOnThrow(_)
InvokeAllStopOnThrow(ls) ==
  IF ls = <<>> THEN <<>>
  ELSE IF Head(ls) \in Throwing THEN <<Head(ls)>>
       ELSE <<Head(ls)>> \o InvokeAllStopOnThrow(Tail(ls))

RECURSIVE InvokeAll(_)
\* listeners.forEach(l => { try { l(n) } catch { log } }): the sequence of
\* callbacks invoked, a throwing one does not stop the loop
InvokeAll(ls) ==
  IF ls = <<>> THEN <<>>
  ELSE <<Head(ls)>> \o InvokeAll(Tail(ls))

Op(op, arg, ret, invoked) ==
  [op |-> op, arg |-> arg, ret |-> ret, invoked |-> invoked]

\* the last step returned nothing to a caller
NoResult == Op("none", 0, "void", <<>>)

Notif(id, read) == [id |-> id, is_read |-> read]

Listeners(aud) == IF aud = "inApp" THEN inAppListeners ELSE pushListeners

\* ---------------------------------------------------------------------
\* The notification table and its realtime stream
\* ---------------------------------------------------------------------
NoRow == [exists |-> FALSE, is_read |-> FALSE, acknowledged |-> FALSE,
          type |-> "absent", priority |-> "absent"]

\* the row the intake function inserts for a body without type and priority
NewRow == [exists |-> TRUE, is_read |-> FALSE, acknowledged |-> FALSE,
           type |-> "general", priority |-> "medium"]

\* payload.new of a change of row id
Payload(rows, id) == Notif(id, rows[id].is_read)

Event(ch, kind, n) == [ch |-> ch, kind |-> kind, new |-> n]

RECURSIVE DropChannel(_, _)
\* supabase.removeChannel: nothing more is delivered on that channel
DropChannel(q, ch) ==
  IF q = <<>> THEN <<>>
  ELSE IF Head(q).ch = ch THEN DropChannel(Tail(q), ch)
       ELSE <<Head(q)>> \o DropChannel(Tail(q), ch)

RECURSIVE Broadcast(_, _, _, _)
\* one event per open channel
Broadcast(q, chs, kind, n) ==
  IF chs = {} THEN q
  ELSE LET ch == CHOOSE c \in chs : \A d \in chs : c <= d
       IN Broadcast(Append(q, Event(ch, kind, n)), chs \ {ch}, kind, n)

\* ---------------------------------------------------------------------
\* Values of the Dashboard and of the relay
\* ---------------------------------------------------------------------
\* `${Date.now()}` of handleApiNotification
ApiId(t) == 3000 + t

DashIds == RowIds \cup {ApiId(t) : t \in 1..MaxApi}

\* texts over a two-letter alphabet in both cases
Chars == {"a", "A", "b"}
Texts == {<<"A", "b">>, <<"b">>}
Terms == {<<>>, <<"a">>, <<"B">>, <<"b", "a">>}
Types == {"absent", "test", "api"}
TypeFilters == {"all", "test", "api"}
Priorities == {"absent", "low", "medium", "high"}
PriorityFilters == {"all", "low", "medium", "high"}

Item(id, ack, title, body, type, priority) ==
  [id |-> id, acknowledged |-> ack, title |-> title, body |-> body,
   type |-> type, priority |-> priority]

\* a row of the table as the Dashboard receives it
RowItem(id, ack) == Item(id, ack, <<"A", "b">>, <<"b">>, "test", "medium")

NoRequest == [method |-> "none", priority |-> "absent", action_url |-> "absent",
              user_id |-> "absent", id |-> 0, configured |-> FALSE,
              providerOk |-> FALSE]

NoResponse == [status |-> 0, priority |-> 0, url |-> "absent",
               buttons |-> FALSE, target |-> "none"]

\* ---------------------------------------------------------------------
\* Values of the serverless functions
\* ---------------------------------------------------------------------
Endpoints == {"e1", "e2"}
Users == {"u1"}
Methods == {"OPTIONS", "GET", "POST"}

\* a row of push_subscriptions; created_at is new Date().toISOString()
SubRow(endpoint, keys, user, t) ==
  [endpoint |-> endpoint, keys |-> keys, user_id |-> user, created_at |-> t]

\* event.body: none, text that JSON.parse rejects, or a JSON object; a
\* field the object does not have is "absent"
Body(kind, endpoint, keys, user, title, message, type, priority) ==
  [kind |-> kind, endpoint |-> endpoint, keys |-> keys, user_id |-> user,
   title |-> title, message |-> message, type |-> type, priority |-> priority]

NoBody == Body("none", "absent", "absent", "absent", "absent", "absent",
               "absent", "absent")

Malformed == [NoBody EXCEPT !.kind = "malformed"]

EmptyObject == [NoBody EXCEPT !.kind = "json"]

\* an invocation: the function and its variant, the event, whether the
\* environment values are set, and whether the database statement succeeds
FnRequest(fn, variant, method, body, configured, dbOk) ==
  [fn |-> fn, variant |-> variant, method |-> method, body |-> body,
   configured |-> configured, dbOk |-> dbOk]

NoFnRequest == FnRequest("none", 0, "none", NoBody, FALSE, FALSE)

\* a count the response body does not have
NoCount == -1

\* statusCode and body of a response
FnResponse(status, error, sent, failed, total) ==
  [status |-> status, error |-> error, sent |-> sent, failed |-> failed,
   total |-> total]

Answer(status, error) == FnResponse(status, error, NoCount, NoCount, NoCount)

NoFnResponse == Answer(0, "")

IdleFanout == [pc |-> "idle", variant |-> 0, user |-> "absent", tasks |-> <<>>]

\* ---------------------------------------------------------------------
\* Values of the service worker
\* ---------------------------------------------------------------------
\* URLs as character sequences: the origin, then the path; <<>> is no url
Origin == <<"o">>
Root == <<"/">>
Alerts == <<"/", "a">>
Paths == {Root, Alerts}

\* event.data of a push event
Push(kind, title, message, body, priority, id, url, data_url) ==
  [kind |-> kind, title |-> title, message |-> message, body |-> body,
   priority |-> priority, id |-> id, url |-> url, data_url |-> data_url]

NoPush ==
  Push("none", "absent", "absent", "absent", "absent", "absent", <<>>, <<>>)

\* a tag: its fixed prefix and the Date.now() it was made from (0: none)
Tag(prefix, t) == [prefix |-> prefix, t |-> t]

\* a displayed notification
Shown(title, body, tag, requireInteraction, vibrate, id, url) ==
  [title |-> title, body |-> body, tag |-> tag,
   requireInteraction |-> requireInteraction, vibrate |-> vibrate,
   id |-> id, url |-> url]

NoShown == Shown("", "", Tag("", 0), FALSE, <<>>, "absent", <<>>)

WindowClient(url, controlled) ==
  [url |-> url, controlled |-> controlled, focused |-> 0, inbox |-> <<>>]

\* the event a handler of the worker was called with
WorkerEvent(kind, variant, action, data, notification) ==
  [kind |-> kind, variant |-> variant, action |-> action, data |-> data,
   notification |-> notification]

NoEvent == WorkerEvent("none", "none", "none", NoPush, NoShown)

\* no function has been called, the subscription table is empty, no window
\* is open and nothing is displayed
\* no sendTestNotification call yet
NoTestCall == [priority |-> "none", pushOnly |-> FALSE]

\* no worker has been registered for the scope
NoRegistration ==
  [installing |-> FALSE, waiting |-> FALSE, active |-> FALSE,
   controller |-> FALSE, updatefound |-> FALSE, claims |-> FALSE,
   claimPending |-> FALSE, supported |-> TRUE]

UiIdle ==
  /\ testCall = NoTestCall
  /\ overlayNotifications = <<>>
  /\ dismissTasks = <<>>
  /\ dialogIsLoading = FALSE
  /\ dialogLastError = "null"
  /\ dialogStatus = FALSE
  /\ dialogTasks = <<>>
  /\ shellRuns = <<>>
  /\ eventListeners = {}
  /\ intervals = {}
  /\ healthCheckInterval = 0

\* registerServiceWorker has not been called
RegIdle ==
  /\ registration = NoRegistration
  /\ registerTasks = <<>>

\* no quick-test button has been pressed
IdleTest == [pc |-> "idle", priority |-> "none", supported |-> TRUE, mounted |-> TRUE]

ExtraIdle == RegIdle /\ dashTest = IdleTest

\* the serverless functions and the service worker have handled nothing
BackIdle ==
  /\ subscriptions = <<>>
  /\ fnReq = NoFnRequest
  /\ fnOut = NoFnResponse
  /\ fanout = IdleFanout
  /\ swClients = <<>>
  /\ swShown = <<>>
  /\ swOpened = <<>>
  /\ swEvent = NoEvent

EdgeIdle ==
  /\ UiIdle
  /\ ExtraIdle
  /\ BackIdle

\* ---------------------------------------------------------------------
\* Listener management
\* ---------------------------------------------------------------------
AddListener(aud, cb) ==
  /\ Len(closures) < MaxRegs
  /\ IF aud = "inApp"
     THEN /\ inAppListeners' = Append(inAppListeners, cb)
          /\ UNCHANGED pushListeners
     ELSE /\ pushListeners' = Append(pushListeners, cb)
          /\ UNCHANGED inAppListeners
  /\ closures' = Append(closures, [aud |-> aud, cb |-> cb, called |-> FALSE])
  /\ deregistered' = [deregistered EXCEPT ![aud] = @ \ {cb}]
  /\ lastOp' = Op(IF aud = "inApp" THEN "addInAppListener" ELSE "addPushListener",
                  Len(closures) + 1, "closure", <<>>)
  /\ UNCHANGED <<localNotifications, connVars, envVars>>

\* filter with the test inverted: keeps only the callback
UnregisterInverted(s, cb) ==
  IF s = <<>> THEN <<>> ELSE [i \in 1..Count(s, cb) |-> cb]

Unregister(s, cb) == Filter(s, cb)

\* the closure returned by addInAppListener / addPushListener
CallClosure(i) ==
  /\ i \in 1..Len(closures)
  /\ LET c == closures[i] IN
       /\ IF c.aud = "inApp"
          THEN /\ inAppListeners' = Unregister(inAppListeners, c.cb)
               /\ UNCHANGED pushListeners
          ELSE /\ pushListeners' = Unregister(pushListeners, c.cb)
               /\ UNCHANGED inAppListeners
       /\ closures' = [closures EXCEPT ![i].called = TRUE]
       /\ deregistered' = [deregistered EXCEPT ![c.aud] = @ \cup {c.cb}]
       /\ lastOp' = Op("unsubscribe", i, "void", <<>>)
  /\ UNCHANGED <<localNotifications, connVars, envVars>>

\* ---------------------------------------------------------------------
\* Notification handlers
\* ---------------------------------------------------------------------
PushLast(s, n) == Append(s, n)

Unshift(s, n) == <<n>> \o s

NoTrim(s) == s

Trim(s) == IF Len(s) > CacheCap THEN Slice(s, CacheCap) ELSE s

\* handleInAppNotification: what it assigns and whom it invokes
HandleInAppNotificationCore(op, n) ==
  /\ localNotifications' = Trim(Unshift(localNotifications, n))
  /\ lastOp' = Op(op, n.id, "void", InvokeAll(inAppListeners))

HandleInAppNotification(op, n) ==
  /\ HandleInAppNotificationCore(op, n)
  /\ UNCHANGED <<listenerVars, connVars, envVars>>

ReplaceAt(s, i, n) == [s EXCEPT ![i] = n]

\* handleNotificationUpdate: what it assigns and whom it invokes
HandleNotificationUpdateCore(n) ==
  /\ LET index == FindIndex(localNotifications, n.id) IN
       localNotifications' =
         IF index # 0 THEN ReplaceAt(localNotifications, index, n)
         ELSE localNotifications
  /\ lastOp' = Op("realtimeUpdate", n.id, "void", InvokeAll(inAppListeners))

HandleNotificationUpdate(n) ==
  /\ HandleNotificationUpdateCore(n)
  /\ UNCHANGED <<listenerVars, connVars, envVars>>

HandlePushReceivedBothAudiences(n) ==
  /\ localNotifications' = Unshift(localNotifications, n)
  /\ lastOp' = Op("pushMessage", n.id, "void",
                  InvokeAll(pushListeners \o inAppListeners))
  /\ UNCHANGED <<listenerVars, connVars, envVars>>

\* handleServiceWorkerMessage, branch PUSH_NOTIFICATION_RECEIVED
HandlePushReceived(n) ==
  /\ localNotifications' = Unshift(localNotifications, n)
  /\ lastOp' = Op("pushMessage", n.id, "void", InvokeAll(pushListeners))
  /\ UNCHANGED <<listenerVars, connVars, envVars>>

SendTestNotificationIgnoresPushOnly(id, pushOnly) ==
  IF serviceWorkerRegistration
  THEN /\ lastOp' = Op("sendTestNotification", id, "posted", <<>>)
       /\ UNCHANGED <<localNotifications, listenerVars, connVars, envVars>>
  ELSE HandleInAppNotification("sendTestNotification", Notif(id, FALSE))

\* sendTestNotification(priority, pushOnly); id is `test-${Date.now()}`
SendTestNotification(id, pushOnly) ==
  IF pushOnly /\ serviceWorkerRegistration
  THEN \* only posts SHOW_NOTIFICATION to the active worker
       /\ lastOp' = Op("sendTestNotification", id, "posted", <<>>)
       /\ UNCHANGED <<localNotifications, listenerVars, connVars, envVars>>
  ELSE HandleInAppNotification("sendTestNotification", Notif(id, FALSE))

DisconnectKeepsPushListeners ==
  /\ IF supabaseSubscription # 0 /\ isSupabaseAvailable
     THEN /\ channels' = channels \ {supabaseSubscription}
          /\ realtime' = DropChannel(realtime, supabaseSubscription)
          /\ supabaseSubscription' = 0
     ELSE UNCHANGED <<channels, realtime, supabaseSubscription>>
  /\ isSupabaseConnected' = FALSE
  /\ inAppListeners' = <<>>
  /\ isInitialized' = FALSE
  /\ lastOp' = Op("disconnect", 0, "void", <<>>)
  /\ UNCHANGED <<closures, deregistered, localNotifications, isSupabaseAvailable,
                 serviceWorkerRegistration, pushSubscription, initTask,
                 pushSupported, permission, registerCalls, swHandlers,
                 channelsOpened, db, markPending, markAllPending, pushListeners>>

\* disconnect()
Disconnect ==
  /\ IF supabaseSubscription # 0 /\ isSupabaseAvailable
     THEN /\ channels' = channels \ {supabaseSubscription}
          /\ realtime' = DropChannel(realtime, supabaseSubscription)
          /\ supabaseSubscription' = 0
     ELSE UNCHANGED <<channels, realtime, supabaseSubscription>>
  /\ isSupabaseConnected' = FALSE
  /\ inAppListeners' = <<>>
  /\ pushListeners' = <<>>
  /\ isInitialized' = FALSE
  /\ lastOp' = Op("disconnect", 0, "void", <<>>)
  /\ UNCHANGED <<closures, deregistered, localNotifications, isSupabaseAvailable,
                 serviceWorkerRegistration, pushSubscription, initTask,
                 pushSupported, permission, registerCalls, swHandlers,
                 channelsOpened, db, markPending, markAllPending>>

\* ---------------------------------------------------------------------
\* initialize(): one call per caller, suspended at its awaits
\* ---------------------------------------------------------------------
IdleTask == [pc |-> "idle", push |-> "none", supa |-> "none"]

Settled(r) == r \in {"true", "false"}

BoolStr(b) == IF b THEN "true" ELSE "false"

\* initialize() without the early return of lines 304-307
InitializeNoGuard(p) ==
  /\ initTask[p].pc = "idle"
  /\ registerCalls < MaxInits
  /\ channelsOpened < MaxInits
  /\ initTask' = [initTask EXCEPT ![p] =
       [pc |-> "running",
        push |-> IF pushSupported THEN "registering" ELSE "false",
        supa |-> IF isSupabaseAvailable THEN "testing" ELSE "false"]]
  /\ registerCalls' = IF pushSupported THEN registerCalls + 1 ELSE registerCalls
  /\ lastOp' = Op("initialize", 0, IF isInitialized THEN "true" ELSE "pending", <<>>)
  /\ UNCHANGED <<listenerVars, connVars, localNotifications, pushSupported,
                 permission, swHandlers, channels, channelsOpened, dbVars>>

\* initialize() up to its first suspension: the early return when already
\* initialized, else both set-ups are started (register() is called, the
\* connection test query is sent)
Initialize(p) ==
  /\ initTask[p].pc = "idle"
  /\ IF isInitialized
     THEN /\ lastOp' = Op("initialize", 0, "true", <<>>)
          /\ UNCHANGED <<listenerVars, connVars, localNotifications, envVars>>
     ELSE /\ registerCalls < MaxInits
          /\ channelsOpened < MaxInits
          /\ initTask' = [initTask EXCEPT ![p] =
               [pc |-> "running",
                push |-> IF pushSupported THEN "registering" ELSE "false",
                supa |-> IF isSupabaseAvailable THEN "testing" ELSE "false"]]
          /\ registerCalls' =
               IF pushSupported THEN registerCalls + 1 ELSE registerCalls
          /\ lastOp' = Op("initialize", 0, "pending", <<>>)
          /\ UNCHANGED <<listenerVars, connVars, localNotifications,
                         pushSupported, permission, swHandlers, channels,
                         channelsOpened, dbVars>>

\* initializePushNotifications: register() settles
InitPushRegistered(p, ok) ==
  /\ initTask[p].push = "registering"
  /\ initTask' = [initTask EXCEPT ![p].push = IF ok THEN "ready" ELSE "false"]
  /\ serviceWorkerRegistration' = (ok \/ serviceWorkerRegistration)
  /\ lastOp' = Op("registerSettled", 0, BoolStr(ok), <<>>)
  /\ UNCHANGED <<listenerVars, localNotifications, isInitialized,
                 isSupabaseAvailable, isSupabaseConnected, supabaseSubscription,
                 pushSubscription, pushSupported, permission, registerCalls,
                 swHandlers, channels, channelsOpened, dbVars>>

\* initializePushNotifications: navigator.serviceWorker.ready resolves and
\* the 'message' handler is attached
InitPushReady(p) ==
  /\ initTask[p].push = "ready"
  /\ initTask' = [initTask EXCEPT ![p].push = "true"]
  /\ swHandlers' = swHandlers + 1
  /\ lastOp' = Op("workerReady", 0, "true", <<>>)
  /\ UNCHANGED <<listenerVars, connVars, localNotifications, pushSupported,
                 permission, registerCalls, channels, channelsOpened, dbVars>>

\* initializeSupabase: the connection test settles; on success the channel
\* 'unified-notifications' is created and subscribed
InitSupabaseTested(p, ok) ==
  /\ initTask[p].supa = "testing"
  /\ initTask' = [initTask EXCEPT ![p].supa = BoolStr(ok)]
  /\ IF ok
     THEN /\ channelsOpened' = channelsOpened + 1
          /\ channels' = channels \cup {channelsOpened + 1}
          /\ supabaseSubscription' = channelsOpened + 1
     ELSE UNCHANGED <<channelsOpened, channels, supabaseSubscription>>
  /\ lastOp' = Op("connectionTested", 0, BoolStr(ok), <<>>)
  /\ UNCHANGED <<listenerVars, localNotifications, isInitialized,
                 isSupabaseAvailable, isSupabaseConnected,
                 serviceWorkerRegistration, pushSubscription, pushSupported,
                 permission, registerCalls, swHandlers, dbVars>>

\* initialize() after Promise.allSettled
InitializeDone(p) ==
  /\ initTask[p].pc = "running"
  /\ Settled(initTask[p].push)
  /\ Settled(initTask[p].supa)
  /\ isInitialized' = TRUE
  /\ initTask' = [initTask EXCEPT ![p] = IdleTask]
  /\ lastOp' = Op("initializeDone", 0,
                  BoolStr(initTask[p].push = "true" \/ initTask[p].supa = "true"),
                  <<>>)
  /\ UNCHANGED <<listenerVars, localNotifications, isSupabaseAvailable,
                 isSupabaseConnected, supabaseSubscription,
                 serviceWorkerRegistration, pushSubscription, pushSupported,
                 permission, registerCalls, swHandlers, channels, channelsOpened, dbVars>>

\* the status callback of channel.subscribe
ChannelStatus(subscribed) ==
  /\ channels # {}
  /\ isSupabaseConnected' = subscribed
  /\ lastOp' = Op("channelStatus", 0, BoolStr(subscribed), <<>>)
  /\ UNCHANGED <<listenerVars, localNotifications, isInitialized,
                 isSupabaseAvailable, supabaseSubscription,
                 serviceWorkerRegistration, pushSubscription, envVars>>

\* ---------------------------------------------------------------------
\* Push subscription
\* ---------------------------------------------------------------------
\* Notification.requestPermission(): a decided permission is returned as
\* it is, an undecided one is whatever the user answers
PermissionAfterRequest(answer) ==
  IF permission = "default" THEN answer ELSE permission

\* the try block of subscribeToPush: throws on a denied permission or a
\* failing pushManager.subscribe, else yields the subscription
SubscribeTry(perm, browserOk) ==
  IF perm # "granted" THEN "throw"
  ELSE IF ~browserOk THEN "throw"
  ELSE "subscription"

Rethrow(r) == r

\* catch (error) { console.error(...); return null }
CatchReturnNull(r) == IF r = "throw" THEN "null" ELSE r

SubscribeToPush(answer, browserOk) ==
  IF ~serviceWorkerRegistration
  THEN /\ lastOp' = Op("subscribeToPush", 0, "null", <<>>)
       /\ UNCHANGED <<listenerVars, connVars, localNotifications, envVars>>
  ELSE LET perm == PermissionAfterRequest(answer)
           r == CatchReturnNull(SubscribeTry(perm, browserOk))
       IN /\ permission' = perm
          /\ pushSubscription' = (r = "subscription" \/ pushSubscription)
          /\ lastOp' = Op("subscribeToPush", 0, r, <<>>)
          /\ UNCHANGED <<listenerVars, localNotifications, isInitialized,
                         isSupabaseAvailable, isSupabaseConnected,
                         supabaseSubscription, serviceWorkerRegistration,
                         initTask, pushSupported, registerCalls, swHandlers,
                         channels, channelsOpened, dbVars>>

\* unsubscribeFromPush: outcome is what subscription.unsubscribe() gives
UnsubscribeFromPush(outcome) ==
  IF ~pushSubscription
  THEN /\ lastOp' = Op("unsubscribeFromPush", 0, "false", <<>>)
       /\ UNCHANGED <<listenerVars, connVars, localNotifications, envVars>>
  ELSE /\ pushSubscription' = (outcome # "true")
       /\ lastOp' = Op("unsubscribeFromPush", 0,
                       IF outcome = "true" THEN "true" ELSE "false", <<>>)
       /\ UNCHANGED <<listenerVars, localNotifications, isInitialized,
                      isSupabaseAvailable, isSupabaseConnected,
                      supabaseSubscription, serviceWorkerRegistration, envVars>>

\* ---------------------------------------------------------------------
\* Read state
\* ---------------------------------------------------------------------
SetReadAt(s, i) == [s EXCEPT ![i].is_read = TRUE]

\* markAsRead(id) up to its await: the local entry, then the update is sent
MarkAsRead(id) ==
  /\ LET localIndex == FindIndex(localNotifications, id) IN
       localNotifications' =
         IF localIndex # 0 THEN SetReadAt(localNotifications, localIndex)
         ELSE localNotifications
  /\ IF ~isSupabaseAvailable
     THEN /\ lastOp' = Op("markAsRead", id, "void", <<>>)
          /\ UNCHANGED markPending
     ELSE /\ markPending' = markPending \cup {id}
          /\ lastOp' = Op("markAsRead", id, "pending", <<>>)
  /\ UNCHANGED <<listenerVars, connVars, initTask, pushSupported, permission,
                 registerCalls, swHandlers, channels, channelsOpened, db,
                 realtime, markAllPending>>

ReadRow(r) == [r EXCEPT !.is_read = TRUE, !.acknowledged = TRUE]

MarkAsReadSettledRollback(id, ok) ==
  /\ id \in markPending
  /\ markPending' = markPending \ {id}
  /\ IF ok /\ id \in RowIds /\ db[id].exists
     THEN /\ db' = [db EXCEPT ![id] = ReadRow(@)]
          /\ realtime' = Broadcast(realtime, channels, "UPDATE", Payload(db', id))
     ELSE UNCHANGED <<db, realtime>>
  /\ LET localIndex == FindIndex(localNotifications, id) IN
       localNotifications' =
         IF ~ok /\ localIndex # 0
         THEN [localNotifications EXCEPT ![localIndex].is_read = FALSE]
         ELSE localNotifications
  /\ lastOp' = Op("markAsReadSettled", id, IF ok THEN "void" ELSE "throw", <<>>)
  /\ UNCHANGED <<listenerVars, connVars, initTask,
                 pushSupported, permission, registerCalls, swHandlers, channels,
                 channelsOpened, markAllPending>>

\* markAsRead(id): the update ... eq('id', id) settles
MarkAsReadSettled(id, ok) ==
  /\ id \in markPending
  /\ markPending' = markPending \ {id}
  /\ IF ok /\ id \in RowIds /\ db[id].exists
     THEN /\ db' = [db EXCEPT ![id] = ReadRow(@)]
          /\ realtime' = Broadcast(realtime, channels, "UPDATE", Payload(db', id))
     ELSE UNCHANGED <<db, realtime>>
  /\ lastOp' = Op("markAsReadSettled", id, IF ok THEN "void" ELSE "throw", <<>>)
  /\ UNCHANGED <<listenerVars, connVars, localNotifications, initTask,
                 pushSupported, permission, registerCalls, swHandlers, channels,
                 channelsOpened, markAllPending>>

\* markAllAsRead() up to its await
MarkAllAsRead ==
  /\ localNotifications' =
       [i \in 1..Len(localNotifications) |->
          [localNotifications[i] EXCEPT !.is_read = TRUE]]
  /\ IF ~isSupabaseAvailable
     THEN /\ lastOp' = Op("markAllAsRead", 0, "void", <<>>)
          /\ UNCHANGED markAllPending
     ELSE /\ markAllPending' = TRUE
          /\ lastOp' = Op("markAllAsRead", 0, "pending", <<>>)
  /\ UNCHANGED <<listenerVars, connVars, initTask, pushSupported, permission,
                 registerCalls, swHandlers, channels, channelsOpened, db,
                 realtime, markPending>>

RECURSIVE BroadcastRows(_, _, _, _)
BroadcastRows(q, chs, rows, ids) ==
  IF ids = {} THEN q
  ELSE LET id == CHOOSE i \in ids : \A j \in ids : i <= j
       IN BroadcastRows(Broadcast(q, chs, "UPDATE", Payload(rows, id)),
                        chs, rows, ids \ {id})

\* markAllAsRead(): the update ... eq('is_read', false) settles
MarkAllAsReadSettled(ok) ==
  /\ markAllPending
  /\ markAllPending' = FALSE
  /\ IF ok
     THEN LET hit == {id \in RowIds : db[id].exists /\ ~db[id].is_read} IN
            /\ db' = [id \in RowIds |-> IF id \in hit THEN ReadRow(db[id]) ELSE db[id]]
            /\ realtime' = BroadcastRows(realtime, channels, db', hit)
     ELSE UNCHANGED <<db, realtime>>
  /\ lastOp' = Op("markAllAsReadSettled", 0, IF ok THEN "void" ELSE "throw", <<>>)
  /\ UNCHANGED <<listenerVars, connVars, localNotifications, initTask,
                 pushSupported, permission, registerCalls, swHandlers, channels,
                 channelsOpened, markPending>>

\* the notification intake function inserts a row
IntakeInsert(id) ==
  /\ ~db[id].exists
  /\ \A j \in RowIds : j < id => db[j].exists
  /\ db' = [db EXCEPT ![id] = NewRow]
  /\ realtime' = Broadcast(realtime, channels, "INSERT", Payload(db', id))
  /\ lastOp' = Op("intakeInsert", id, "200", <<>>)
  /\ UNCHANGED <<listenerVars, connVars, localNotifications, initTask,
                 pushSupported, permission, registerCalls, swHandlers, channels,
                 channelsOpened, markPending, markAllPending>>

\* a Dashboard session acknowledges the row: update({acknowledged: true})
DashboardAckRow(id) ==
  /\ db[id].exists
  /\ db' = [db EXCEPT ![id].acknowledged = TRUE]
  /\ realtime' = Broadcast(realtime, channels, "UPDATE", Payload(db', id))
  /\ lastOp' = Op("dashboardAckRow", id, "void", <<>>)
  /\ UNCHANGED <<listenerVars, connVars, localNotifications, initTask,
                 pushSupported, permission, registerCalls, swHandlers, channels,
                 channelsOpened, markPending, markAllPending>>

\* a Dashboard session acknowledges all: update({acknowledged: true}) on the
\* rows with acknowledged false
DashboardAckAllRows ==
  /\ LET hit == {id \in RowIds : db[id].exists /\ ~db[id].acknowledged} IN
       /\ db' = [id \in RowIds |->
                  IF id \in hit THEN [db[id] EXCEPT !.acknowledged = TRUE]
                  ELSE db[id]]
       /\ realtime' = BroadcastRows(realtime, channels, db', hit)
  /\ lastOp' = Op("dashboardAckAllRows", 0, "void", <<>>)
  /\ UNCHANGED <<listenerVars, connVars, localNotifications, initTask,
                 pushSupported, permission, registerCalls, swHandlers, channels,
                 channelsOpened, markPending, markAllPending>>

RelayPatchRowWritesRecord(id) ==
  /\ db[id].exists
  /\ db' = [db EXCEPT ![id] = NewRow]
  /\ realtime' = Broadcast(realtime, channels, "UPDATE", Payload(db', id))
  /\ lastOp' = Op("relayPatchRow", id, "void", <<>>)
  /\ UNCHANGED <<listenerVars, connVars, localNotifications, initTask,
                 pushSupported, permission, registerCalls, swHandlers, channels,
                 channelsOpened, markPending, markAllPending>>

\* the OneSignal relay patches the row's metadata
RelayPatchRow(id) ==
  /\ db[id].exists
  /\ realtime' = Broadcast(realtime, channels, "UPDATE", Payload(db, id))
  /\ lastOp' = Op("relayPatchRow", id, "void", <<>>)
  /\ UNCHANGED <<listenerVars, connVars, localNotifications, initTask,
                 pushSupported, permission, registerCalls, swHandlers, channels,
                 channelsOpened, db, markPending, markAllPending>>

\* the realtime client hands the oldest event to its postgres_changes callback
DeliverRealtime ==
  /\ realtime # <<>>
  /\ LET e == Head(realtime) IN
       /\ IF e.kind = "INSERT"
          THEN HandleInAppNotificationCore("realtimeInsert", e.new)
          ELSE HandleNotificationUpdateCore(e.new)
       /\ realtime' = Tail(realtime)
  /\ UNCHANGED <<listenerVars, connVars, initTask, pushSupported, permission,
                 registerCalls, swHandlers, channels, channelsOpened, db,
                 markPending, markAllPending>>

\* ---------------------------------------------------------------------
\* The OneSignal relay (supabase/functions/send-onesignal-notification)
\* ---------------------------------------------------------------------
\* JavaScript a || b on strings: undefined and "" are falsy
OrElse(v, d) == IF v \in {"absent", ""} THEN d ELSE v

DefaultLow(v) == OrElse(v, "low")

\* const priority = record.priority || 'medium'
DefaultPriority(v) == OrElse(v, "medium")

\* lines 78-84
ProviderPriority(priority) ==
  IF priority = "high" \/ priority = "urgent" THEN PriorityHigh
  ELSE IF priority = "medium" THEN PriorityMedium
  ELSE PriorityLow

RelayPayload(record) ==
  [status |-> 200,
   priority |-> ProviderPriority(DefaultPriority(record.priority)),
   url |-> record.action_url,
   buttons |-> (OrElse(record.action_url, "") # ""),
   target |-> IF OrElse(record.user_id, "") # "" THEN "user" ELSE "All"]

ErrorResponse == [NoResponse EXCEPT !.status = 500]

\* serve(async (req) => ...)
RelayServe ==
  /\ relayReq.method # "none"
  /\ relayOut = NoResponse
  /\ IF relayReq.method = "OPTIONS"
     THEN /\ relayOut' = [NoResponse EXCEPT !.status = 200]
          /\ UNCHANGED realtime
     ELSE IF ~relayReq.configured \/ ~relayReq.providerOk
     THEN /\ relayOut' = ErrorResponse
          /\ UNCHANGED realtime
     ELSE /\ relayOut' = RelayPayload(relayReq)
          /\ realtime' =
               IF relayReq.id \in RowIds /\ db[relayReq.id].exists
               THEN Broadcast(realtime, channels, "UPDATE", Payload(db, relayReq.id))
               ELSE realtime
  /\ lastOp' = Op("relay", relayReq.id, "response", <<>>)
  /\ UNCHANGED <<serviceVars, db, dashVars, edgeVars, relayReq, clock>>

\* the next request arrives
RelayReceive(req) ==
  /\ relayOut # NoResponse
  /\ relayReq' = req
  /\ relayOut' = NoResponse
  /\ lastOp' = Op("relayRequest", req.id, "void", <<>>)
  /\ UNCHANGED <<serviceVars, dbVars, dashVars, edgeVars, clock>>

\* ---------------------------------------------------------------------
\* The subscription intake function (netlify/functions/subscribe.js, two
\* handlers in the file, and a third copy of it)
\* ---------------------------------------------------------------------
\* JavaScript truthiness of a string field: undefined and "" are falsy
Truthy(v) == v \notin {"absent", ""}

\* variants of the handler: 1 is subscribe.js lines 4-57, 2 is subscribe.js
\* lines 62-144, 3 is the third copy
SubscribeVariants == {1, 2, 3}

\* the keys object has p256dh and auth
FullKeys(keys) == Truthy(keys) /\ keys # "partial"

\* insert(row) without a conflict target
InsertRow(table, row) == Append(table, row)

\* upsert(row, { onConflict: 'endpoint' }): the columns given replace those
\* of the row with that endpoint, or the row is inserted
Upsert(table, row) ==
  IF \E i \in 1..Len(table) : table[i].endpoint = row.endpoint
  THEN [i \in 1..Len(table) |->
          IF table[i].endpoint = row.endpoint
          THEN [table[i] EXCEPT !.keys = row.keys, !.created_at = row.created_at]
          ELSE table[i]]
  ELSE Append(table, row)

\* what a handler decided: the response and whether it ran the statement
Decision(status, error, write) ==
  [status |-> status, error |-> error, write |-> write]

\* the statement's outcome
Stored(req) ==
  IF req.dbOk THEN Decision(200, "", TRUE)
  ELSE Decision(500, "error.message", FALSE)

\* subscribe.js lines 4-57; an event without a body has body null, which
\* JSON.parse turns into null
SubscribeV1(req) ==
  IF req.method = "OPTIONS" THEN Decision(200, "", FALSE)
  ELSE IF req.method # "POST" THEN Decision(405, "Method not allowed", FALSE)
  ELSE IF req.body.kind = "malformed" THEN Decision(500, "error.message", FALSE)
  ELSE IF \/ req.body.kind = "none"
          \/ ~Truthy(req.body.endpoint)
          \/ ~FullKeys(req.body.keys)
       THEN Decision(400, "Invalid subscription format", FALSE)
  ELSE IF ~req.configured THEN Decision(500, "error.message", FALSE)
  ELSE Stored(req)

\* subscribe.js lines 62-144
SubscribeV2(req) ==
  IF ~req.configured THEN Decision(500, "Server configuration error", FALSE)
  ELSE IF req.body.kind = "none" THEN Decision(400, "Missing request body", FALSE)
  ELSE IF \/ req.body.kind = "malformed"
          \/ ~Truthy(req.body.endpoint)
          \/ ~Truthy(req.body.keys)
       THEN Decision(400, "Invalid subscription data", FALSE)
  ELSE Stored(req)

\* the third copy: every throw of its try block is answered 500
SubscribeV3(req) ==
  IF req.method = "OPTIONS" THEN Decision(200, "", FALSE)
  ELSE IF req.method # "POST" THEN Decision(405, "Method not allowed", FALSE)
  ELSE IF \/ ~req.configured
          \/ req.body.kind \in {"malformed", "none"}
          \/ ~Truthy(req.body.endpoint)
          \/ ~Truthy(req.body.keys)
       THEN Decision(500, "Failed to process subscription", FALSE)
  ELSE IF req.dbOk THEN Decision(200, "", TRUE)
  ELSE Decision(500, "Failed to process subscription", FALSE)

SubscribeAnswer(req) ==
  IF req.variant = 1 THEN SubscribeV1(req)
  ELSE IF req.variant = 2 THEN SubscribeV2(req)
  ELSE SubscribeV3(req)

\* exports.handler of the subscription intake; t is the time of the call
SubscribeHandler(req, t) ==
  LET a == SubscribeAnswer(req) IN
    /\ fnReq' = req
    /\ fnOut' = Answer(a.status, a.error)
    /\ subscriptions' =
         IF a.write
         THEN Upsert(subscriptions,
                     SubRow(req.body.endpoint, req.body.keys, "absent", t))
         ELSE subscriptions
    /\ lastOp' = Op("subscribe", Len(subscriptions), ToString(a.status), <<>>)
    /\ UNCHANGED <<serviceVars, dbVars, dashVars, relayVars, fanout,
                   workerVars, uiVars, clock>>

\* ---------------------------------------------------------------------
\* The notification intake function (netlify/functions/notifications.js)
\* ---------------------------------------------------------------------
\* { priority = 'medium' } of the destructuring: the default applies to
\* undefined only
DefaultOf(v, d) == IF v = "absent" THEN d ELSE v

InsertedAsGiven(body) ==
  [NewRow EXCEPT !.type = body.type, !.priority = body.priority]

\* the inserted row
InsertedRow(body) ==
  [NewRow EXCEPT !.type = OrElse(body.type, "general"),
                 !.priority = DefaultOf(body.priority, "medium")]

NotificationsAnswer(req) ==
  IF req.method = "OPTIONS" THEN Decision(200, "", FALSE)
  \* createClient(undefined, undefined) throws outside the try block
  ELSE IF ~req.configured THEN Decision(500, "unhandled", FALSE)
  ELSE IF req.method # "POST" THEN Decision(405, "Method not allowed", FALSE)
  ELSE IF req.body.kind \in {"malformed", "none"}
       THEN Decision(500, "error.message", FALSE)
  ELSE IF ~Truthy(req.body.title) \/ ~Truthy(req.body.message)
       THEN Decision(400, "Title and message are required", FALSE)
  ELSE Stored(req)

\* rows of the notification table
RowCount(rows) == Cardinality({id \in RowIds : rows[id].exists})

\* exports.handler of the notification intake
NotificationsHandler(req) ==
  LET a == NotificationsAnswer(req) IN
    /\ fnReq' = req
    /\ fnOut' = Answer(a.status, a.error)
    /\ IF a.write
       THEN \E id \in RowIds :
              /\ ~db[id].exists
              /\ \A j \in RowIds : j < id => db[j].exists
              /\ db' = [db EXCEPT ![id] = InsertedRow(req.body)]
              /\ realtime' = Broadcast(realtime, channels, "INSERT",
                                       Payload(db', id))
       ELSE UNCHANGED <<db, realtime>>
    /\ lastOp' = Op("notifications", RowCount(db), ToString(a.status), <<>>)
    /\ UNCHANGED <<serviceVars, dashVars, relayVars, subscriptions, fanout,
                   workerVars, uiVars, clock>>

\* ---------------------------------------------------------------------
\* The push fan-out function (netlify/functions/send-notification.js) and
\* its simple variant
\* ---------------------------------------------------------------------
\* variants of the handler: 1 is send-notification.js, 2 the simple variant
FanoutVariants == {1, 2}

\* what webpush.sendNotification answers: delivered, HTTP 410, a body that
\* says "unsubscribed", or another error
Outcomes == {"delivered", "gone", "unsubscribed", "error"}

\* a sendNotification(sub, payload) call of the fan-out
Task(endpoint, retries) ==
  [endpoint |-> endpoint, retries |-> retries, attempts |-> 0, waits |-> <<>>,
   settled |-> FALSE, value |-> FALSE, gone |-> FALSE, deleted |-> FALSE]

RECURSIVE SelectUser(_, _)
\* select('endpoint, keys').eq('user_id', user_id): a row without a user
\* id equals no value
SelectUser(table, user) ==
  IF table = <<>> THEN <<>>
  ELSE (IF Truthy(user) /\ Head(table).user_id = user
        THEN <<Head(table).endpoint>> ELSE <<>>)
       \o SelectUser(Tail(table), user)

RECURSIVE DeleteEndpoint(_, _)
\* delete().eq('endpoint', endpoint)
DeleteEndpoint(table, endpoint) ==
  IF table = <<>> THEN <<>>
  ELSE (IF Head(table).endpoint = endpoint THEN <<>> ELSE <<Head(table)>>)
       \o DeleteEndpoint(Tail(table), endpoint)

\* send-notification.js lines 74-102
FanoutV1(req) ==
  IF req.method # "POST" THEN Decision(405, "Method Not Allowed", FALSE)
  ELSE IF req.body.kind = "malformed"
       THEN Decision(500, "Internal Server Error", FALSE)
  ELSE IF ~Truthy(req.body.user_id) \/ ~Truthy(req.body.title)
       THEN Decision(400, "Missing required fields", FALSE)
  ELSE IF ~req.dbOk THEN Decision(500, "Internal Server Error", FALSE)
  ELSE Decision(0, "", TRUE)

\* the simple variant: no validation, and a failed lookup leaves
\* subscriptions null, so subscriptions!.map throws
FanoutV2(req) ==
  IF req.method # "POST" THEN Decision(405, "Method Not Allowed", FALSE)
  ELSE IF req.body.kind \in {"malformed", "none"} \/ ~req.dbOk
       THEN Decision(500, "Internal Server Error", FALSE)
  ELSE Decision(0, "", TRUE)

FanoutAnswer(req) ==
  IF req.variant = 1 THEN FanoutV1(req) ELSE FanoutV2(req)

\* the handler up to Promise.allSettled
FanoutReceive(req) ==
  LET a == FanoutAnswer(req)
      loaded == SelectUser(subscriptions, req.body.user_id)
  IN
    /\ fanout.pc # "sending"
    /\ fnReq' = req
    /\ IF a.write
       THEN /\ fanout' =
                 [pc |-> "sending", variant |-> req.variant,
                  user |-> req.body.user_id,
                  tasks |-> [i \in 1..Len(loaded) |->
                               Task(loaded[i],
                                    IF req.variant = 1 THEN RetryLimit ELSE 0)]]
            /\ fnOut' = NoFnResponse
       ELSE /\ fanout' = IdleFanout
            /\ fnOut' = Answer(a.status, a.error)
    /\ lastOp' = Op("fanout", Len(loaded), ToString(a.status), <<>>)
    /\ UNCHANGED <<serviceVars, dbVars, dashVars, relayVars, subscriptions,
                   workerVars, uiVars, clock>>

GoneStatusOnly(outcome) == outcome = "gone"

\* error.statusCode === 410 || error.body?.includes('unsubscribed')
Gone(outcome) == outcome \in {"gone", "unsubscribed"}

BackoffDoubling(retries) ==
  BackoffStep * (IF retries = RetryLimit THEN 1
                 ELSE IF retries = RetryLimit - 1 THEN 2 ELSE 4)

\* 1000 * (4 - retries)
Backoff(retries) == BackoffStep * (4 - retries)

\* one attempt of sendNotification(sub, payload, retries) and its catch
\* block; delOk is the outcome of the delete
Attempt(task, outcome, delOk) ==
  LET tried == [task EXCEPT !.attempts = @ + 1] IN
    IF outcome = "delivered"
    THEN [tried EXCEPT !.settled = TRUE, !.value = TRUE]
    ELSE IF Gone(outcome)
    THEN [tried EXCEPT !.settled = TRUE, !.gone = TRUE, !.deleted = delOk]
    ELSE IF task.retries > 0
    THEN [tried EXCEPT !.retries = @ - 1,
                       !.waits = Append(@, Backoff(task.retries))]
    ELSE [tried EXCEPT !.settled = TRUE]

\* the simple variant: webpush.sendNotification once, fulfilled or rejected
AttemptOnce(task, outcome) ==
  [task EXCEPT !.attempts = @ + 1, !.settled = TRUE,
               !.value = (outcome = "delivered")]

\* the push service answers the attempt of task i
FanoutAttempt(i, outcome, delOk) ==
  /\ fanout.pc = "sending"
  /\ i \in 1..Len(fanout.tasks)
  /\ ~fanout.tasks[i].settled
  /\ LET after == IF fanout.variant = 1
                  THEN Attempt(fanout.tasks[i], outcome, delOk)
                  ELSE AttemptOnce(fanout.tasks[i], outcome)
     IN /\ fanout' = [fanout EXCEPT !.tasks[i] = after]
        /\ subscriptions' =
             IF after.deleted
             THEN DeleteEndpoint(subscriptions, after.endpoint)
             ELSE subscriptions
  /\ lastOp' = Op("sendNotification", i, outcome, <<>>)
  /\ UNCHANGED <<serviceVars, dbVars, dashVars, relayVars, fnReq, fnOut,
                 workerVars, uiVars, clock>>

\* results.filter(r => r.status === 'fulfilled' && r.value).length
Successful(tasks) == Cardinality({i \in 1..Len(tasks) : tasks[i].value})

FailedRejected(tasks) == 0

\* results.length - successful
Failed(tasks) == Len(tasks) - Successful(tasks)

\* the handler after Promise.allSettled
FanoutRespond ==
  /\ fanout.pc = "sending"
  /\ \A i \in 1..Len(fanout.tasks) : fanout.tasks[i].settled
  /\ fanout' = [fanout EXCEPT !.pc = "done"]
  /\ fnOut' =
       IF fanout.variant = 1
       THEN FnResponse(200, "", Successful(fanout.tasks), Failed(fanout.tasks),
                       Len(fanout.tasks))
       ELSE FnResponse(200, "", Successful(fanout.tasks), NoCount,
                       Len(fanout.tasks))
  /\ lastOp' = Op("fanoutRespond", Len(fanout.tasks), "200", <<>>)
  /\ UNCHANGED <<serviceVars, dbVars, dashVars, relayVars, subscriptions,
                 fnReq, workerVars, uiVars, clock>>

\* ---------------------------------------------------------------------
\* The Dashboard's filter
\* ---------------------------------------------------------------------
\* String.prototype.toLowerCase on one character
LowerChar(c) == IF c = "A" THEN "a" ELSE IF c = "B" THEN "b" ELSE c

ToLowerCase(t) == [i \in 1..Len(t) |-> LowerChar(t[i])]

\* String.prototype.includes
Includes(t, sub) ==
  \E k \in 0..(Len(t) - Len(sub)) :
    \A i \in 1..Len(sub) : t[k + i] = sub[i]

PriorityOrMedium(item) == OrElse(item.priority, "medium")

\* notification.priority as the filter reads it
PriorityOf(item) == item.priority

\* the predicate of notifications.filter(...), lines 294-302
Matches(item) ==
  LET matchesSearch ==
        \/ Includes(ToLowerCase(item.title), ToLowerCase(searchTerm))
        \/ Includes(ToLowerCase(item.body), ToLowerCase(searchTerm))
      matchesType == filterType = "all" \/ item.type = filterType
      matchesPriority ==
        filterPriority = "all" \/ PriorityOf(item) = filterPriority
  IN matchesSearch /\ matchesType /\ matchesPriority

filteredNotifications == SelectSeq(notifications, Matches)

SetSearchTerm(term) ==
  /\ searchTerm' = term
  /\ UNCHANGED <<serviceVars, dbVars, relayVars, edgeVars, clock, lastOp, notifications,
                 unreadCount, filterType, filterPriority, isLoading, loadTask,
                 loadData, ackPending, ackAllPending, dashRealtime>>

SetFilterType(type) ==
  /\ filterType' = type
  /\ UNCHANGED <<serviceVars, dbVars, relayVars, edgeVars, clock, lastOp, notifications,
                 unreadCount, searchTerm, filterPriority, isLoading, loadTask,
                 loadData, ackPending, ackAllPending, dashRealtime>>

SetFilterPriority(priority) ==
  /\ filterPriority' = priority
  /\ UNCHANGED <<serviceVars, dbVars, relayVars, edgeVars, clock, lastOp, notifications,
                 unreadCount, searchTerm, filterType, isLoading, loadTask,
                 loadData, ackPending, ackAllPending, dashRealtime>>

\* ---------------------------------------------------------------------
\* The Dashboard: list, unread counter and their requests
\* ---------------------------------------------------------------------
\* [newNotification, ...prev.slice(0, 49)]
Prepend(n, prev) == <<n>> \o Slice(prev, DashKeep)

\* compares the newest item only
ExistsAtHead(list, id) == list # <<>> /\ list[1].id = id

Exists(list, id) == \E i \in 1..Len(list) : list[i].id = id

Unacknowledged(list) == {i \in 1..Len(list) : ~list[i].acknowledged}

Max(a, b) == IF a > b THEN a ELSE b

\* prev => Math.max(0, prev - 1)
DecrementUnread(prev) == Max(0, prev - 1)

AcknowledgeFirst(list) ==
  [i \in 1..Len(list) |-> IF i = 1 THEN [list[i] EXCEPT !.acknowledged = TRUE]
                          ELSE list[i]]

\* prev.map(n => ({ ...n, acknowledged: true }))
AcknowledgeEvery(list) ==
  [i \in 1..Len(list) |-> [list[i] EXCEPT !.acknowledged = TRUE]]

\* prev.map(n => n.id === notificationId ? { ...n, acknowledged: true } : n)
AcknowledgeId(list, id) ==
  [i \in 1..Len(list) |->
     IF list[i].id = id THEN [list[i] EXCEPT !.acknowledged = TRUE] ELSE list[i]]

RECURSIVE RowsNewestFirst(_, _)
\* select('*').order('created_at', { ascending: false }).limit(50), mapped
\* with acknowledged: n.acknowledged || false
RowsNewestFirst(rows, id) ==
  IF id = 0 THEN <<>>
  ELSE (IF rows[id].exists THEN <<RowItem(id, rows[id].acknowledged)>> ELSE <<>>)
       \o RowsNewestFirst(rows, id - 1)

\* loadRecentNotifications up to its await
LoadStart ==
  /\ loadTask = "idle"
  /\ isLoading' = TRUE
  /\ loadTask' = "sent"
  /\ lastOp' = NoResult
  /\ UNCHANGED <<serviceVars, dbVars, relayVars, edgeVars, clock, notifications,
                 unreadCount, filterVars, loadData, ackPending, ackAllPending,
                 dashRealtime>>

\* the database answers the select
LoadAnswered(ok) ==
  /\ loadTask = "sent"
  /\ loadTask' = IF ok THEN "answered" ELSE "failed"
  /\ loadData' = IF ok THEN RowsNewestFirst(db, NumRows) ELSE <<>>
  /\ lastOp' = NoResult
  /\ UNCHANGED <<serviceVars, dbVars, relayVars, edgeVars, clock, notifications,
                 unreadCount, filterVars, isLoading, ackPending, ackAllPending,
                 dashRealtime>>

\* loadRecentNotifications after its await
LoadApply ==
  /\ loadTask \in {"answered", "failed"}
  /\ IF loadTask = "answered"
     THEN /\ notifications' = loadData
          /\ unreadCount' = Cardinality(Unacknowledged(loadData))
     ELSE /\ notifications' = <<>>
          /\ unreadCount' = 0
  /\ isLoading' = FALSE
  /\ loadTask' = "idle"
  /\ loadData' = <<>>
  /\ lastOp' = NoResult
  /\ UNCHANGED <<serviceVars, dbVars, relayVars, edgeVars, clock, filterVars, ackPending,
                 ackAllPending, dashRealtime>>

\* the intake function inserts a row while the Dashboard's channel is open
DashIntakeInsert(id) ==
  /\ ~db[id].exists
  /\ \A j \in RowIds : j < id => db[j].exists
  /\ db' = [db EXCEPT ![id] = NewRow]
  /\ realtime' = Broadcast(realtime, channels, "INSERT", Payload(db', id))
  /\ dashRealtime' = Append(dashRealtime, id)
  /\ lastOp' = NoResult
  /\ UNCHANGED <<serviceVars, markPending, markAllPending, relayVars, edgeVars, clock,
                 notifications, unreadCount, filterVars, isLoading, loadTask,
                 loadData, ackPending, ackAllPending>>

\* the INSERT callback of setupRealtimeSubscription
DashRealtimeInsert ==
  /\ dashRealtime # <<>>
  /\ LET newNotification == RowItem(Head(dashRealtime), FALSE) IN
       IF ~Exists(notifications, newNotification.id)
       THEN /\ unreadCount' = unreadCount + 1
            /\ notifications' = Prepend(newNotification, notifications)
       ELSE UNCHANGED <<unreadCount, notifications>>
  /\ dashRealtime' = Tail(dashRealtime)
  /\ lastOp' = NoResult
  /\ UNCHANGED <<serviceVars, dbVars, relayVars, edgeVars, clock, filterVars, isLoading,
                 loadTask, loadData, ackPending, ackAllPending>>

\* handleApiNotification; t is Date.now()
ApiNotification(t, priority) ==
  /\ notifications' =
       Prepend(Item(ApiId(t), FALSE, <<"A", "b">>, <<"b">>, "api",
                    OrElse(priority, "medium")),
               notifications)
  /\ unreadCount' = unreadCount + 1
  /\ lastOp' = NoResult
  /\ UNCHANGED <<serviceVars, dbVars, relayVars, edgeVars, filterVars, isLoading,
                 loadTask, loadData, ackPending, ackAllPending, dashRealtime>>

\* acknowledgeNotification(id) up to its await; the button is rendered on
\* items that are not acknowledged
Acknowledge(id) ==
  /\ \E i \in 1..Len(notifications) :
       notifications[i].id = id /\ ~notifications[i].acknowledged
  /\ ackPending' = [ackPending EXCEPT ![id] = @ + 1]
  /\ lastOp' = NoResult
  /\ UNCHANGED <<serviceVars, dbVars, relayVars, edgeVars, clock, notifications,
                 unreadCount, filterVars, isLoading, loadTask, loadData,
                 ackAllPending, dashRealtime>>

\* acknowledgeNotification(id): the update settles
AcknowledgeSettled(id, ok) ==
  /\ ackPending[id] > 0
  /\ ackPending' = [ackPending EXCEPT ![id] = @ - 1]
  /\ IF ok
     THEN /\ IF id \in RowIds /\ db[id].exists
             THEN /\ db' = [db EXCEPT ![id].acknowledged = TRUE]
                  /\ realtime' = Broadcast(realtime, channels, "UPDATE",
                                           Payload(db', id))
             ELSE UNCHANGED <<db, realtime>>
          /\ notifications' = AcknowledgeId(notifications, id)
          /\ unreadCount' = DecrementUnread(unreadCount)
     ELSE UNCHANGED <<db, realtime, notifications, unreadCount>>
  /\ lastOp' = NoResult
  /\ UNCHANGED <<serviceVars, markPending, markAllPending, relayVars, edgeVars, clock,
                 filterVars, isLoading, loadTask, loadData, ackAllPending,
                 dashRealtime>>

\* acknowledgeAllNotifications up to its await (the Dashboard's markAsRead
\* calls it when unreadCount > 0, the "acknowledge all" button always)
AcknowledgeAll ==
  /\ ~ackAllPending
  /\ ackAllPending' = TRUE
  /\ lastOp' = NoResult
  /\ UNCHANGED <<serviceVars, dbVars, relayVars, edgeVars, clock, notifications,
                 unreadCount, filterVars, isLoading, loadTask, loadData,
                 ackPending, dashRealtime>>

\* acknowledgeAllNotifications: the update ... eq('acknowledged', false) settles
AcknowledgeAllSettled(ok) ==
  /\ ackAllPending
  /\ ackAllPending' = FALSE
  /\ IF ok
     THEN LET hit == {id \in RowIds : db[id].exists /\ ~db[id].acknowledged} IN
            /\ db' = [id \in RowIds |->
                        IF id \in hit THEN [db[id] EXCEPT !.acknowledged = TRUE]
                        ELSE db[id]]
            /\ realtime' = BroadcastRows(realtime, channels, db', hit)
            /\ notifications' = AcknowledgeEvery(notifications)
            /\ unreadCount' = 0
     ELSE UNCHANGED <<db, realtime, notifications, unreadCount>>
  /\ lastOp' = Op("acknowledgeAll", unreadCount, IF ok THEN "ok" ELSE "error", <<>>)
  /\ UNCHANGED <<serviceVars, markPending, markAllPending, relayVars, edgeVars, clock,
                 filterVars, isLoading, loadTask, loadData, ackPending,
                 dashRealtime>>

\* ---------------------------------------------------------------------
\* Initial states
\* ---------------------------------------------------------------------
\* the service right after construction, database configured or not
Init ==
  /\ inAppListeners = <<>>
  /\ pushListeners = <<>>
  /\ localNotifications = <<>>
  /\ isInitialized = FALSE
  /\ isSupabaseAvailable \in BOOLEAN
  /\ isSupabaseConnected = FALSE
  /\ supabaseSubscription = 0
  /\ serviceWorkerRegistration = FALSE
  /\ pushSubscription = FALSE
  /\ initTask = [p \in Callers |-> IdleTask]
  /\ pushSupported \in BOOLEAN
  /\ permission \in Permissions
  /\ registerCalls = 0
  /\ swHandlers = 0
  /\ channels = {}
  /\ channelsOpened = 0
  /\ db = [id \in RowIds |-> NoRow]
  /\ realtime = <<>>
  /\ markPending = {}
  /\ markAllPending = FALSE
  /\ notifications = <<>>
  /\ unreadCount = 0
  /\ searchTerm = <<>>
  /\ filterType = "all"
  /\ filterPriority = "all"
  /\ isLoading = FALSE
  /\ loadTask = "idle"
  /\ loadData = <<>>
  /\ ackPending = [id \in DashIds |-> 0]
  /\ ackAllPending = FALSE
  /\ dashRealtime = <<>>
  /\ relayReq = NoRequest
  /\ relayOut = NoResponse
  /\ EdgeIdle
  /\ closures = <<>>
  /\ deregistered = [a \in Audiences |-> {}]
  /\ lastOp = Op("new", 0, "void", <<>>)
  /\ clock = 1

\* the page before the unified service is initialized and before the
\* Dashboard has loaded anything: everything but the relay and the list
InitIdle ==
  /\ inAppListeners = <<>>
  /\ pushListeners = <<>>
  /\ localNotifications = <<>>
  /\ isInitialized = FALSE
  /\ isSupabaseAvailable = TRUE
  /\ isSupabaseConnected = FALSE
  /\ supabaseSubscription = 0
  /\ serviceWorkerRegistration = FALSE
  /\ pushSubscription = FALSE
  /\ initTask = [p \in Callers |-> IdleTask]
  /\ pushSupported = TRUE
  /\ permission = "default"
  /\ registerCalls = 0
  /\ swHandlers = 0
  /\ channels = {}
  /\ channelsOpened = 0
  /\ db = [id \in RowIds |-> NoRow]
  /\ realtime = <<>>
  /\ markPending = {}
  /\ markAllPending = FALSE
  /\ unreadCount = 0
  /\ searchTerm = <<>>
  /\ filterType = "all"
  /\ filterPriority = "all"
  /\ isLoading = FALSE
  /\ loadTask = "idle"
  /\ loadData = <<>>
  /\ ackPending = [id \in DashIds |-> 0]
  /\ ackAllPending = FALSE
  /\ dashRealtime = <<>>
  /\ closures = <<>>
  /\ deregistered = [a \in Audiences |-> {}]
  /\ lastOp = Op("new", 0, "void", <<>>)
  /\ clock = 1

\* ---------------------------------------------------------------------
\* Listener fan-out: the handlers driven directly by their events
\* ---------------------------------------------------------------------
\* the listeners do not look at the payload: one notification id
LIds == {1}

LAddListener ==
  \E aud \in Audiences, cb \in Callbacks :
    AddListener(aud, cb) /\ UNCHANGED <<clock, dashVars, relayVars, edgeVars>>

LCallClosure ==
  \E i \in 1..Len(closures) : CallClosure(i) /\ UNCHANGED <<clock, dashVars, relayVars, edgeVars>>

\* a realtime INSERT event on the open channel
LRealtimeInsert ==
  /\ supabaseSubscription \in channels
  /\ Len(localNotifications) < MaxLocal
  /\ \E id \in LIds : HandleInAppNotification("realtimeInsert", Notif(id, FALSE))
  /\ UNCHANGED <<clock, dashVars, relayVars, edgeVars>>

\* a realtime UPDATE event on the open channel
LRealtimeUpdate ==
  /\ supabaseSubscription \in channels
  /\ \E id \in LIds : HandleNotificationUpdate(Notif(id, TRUE))
  /\ UNCHANGED <<clock, dashVars, relayVars, edgeVars>>

LSendTestNotification ==
  /\ Len(localNotifications) < MaxLocal
  /\ \E t \in Times, pushOnly \in BOOLEAN :
       SendTestNotification(TestId(t), pushOnly)
  /\ UNCHANGED <<clock, dashVars, relayVars, edgeVars>>

\* a PUSH_NOTIFICATION_RECEIVED message from the worker
LPushMessage ==
  /\ swHandlers > 0
  /\ Len(localNotifications) < MaxLocal
  /\ \E id \in LIds : HandlePushReceived(Notif(id, FALSE))
  /\ UNCHANGED <<clock, dashVars, relayVars, edgeVars>>

LDisconnect == Disconnect /\ UNCHANGED <<clock, dashVars, relayVars, edgeVars>>

NextListeners ==
  \/ LAddListener
  \/ LCallClosure
  \/ LRealtimeInsert
  \/ LRealtimeUpdate
  \/ LSendTestNotification
  \/ LPushMessage
  \/ LDisconnect

\* the service after a successful initialize(): worker registered, channel open
InitListeners ==
  /\ inAppListeners = <<>>
  /\ pushListeners = <<>>
  /\ localNotifications = <<>>
  /\ isInitialized = TRUE
  /\ isSupabaseAvailable = TRUE
  /\ isSupabaseConnected = TRUE
  /\ supabaseSubscription = 1
  /\ serviceWorkerRegistration = TRUE
  /\ pushSubscription = FALSE
  /\ initTask = [p \in Callers |-> IdleTask]
  /\ pushSupported = TRUE
  /\ permission = "granted"
  /\ registerCalls = 1
  /\ swHandlers = 1
  /\ channels = {1}
  /\ channelsOpened = 1
  /\ db = [id \in RowIds |-> NoRow]
  /\ realtime = <<>>
  /\ markPending = {}
  /\ markAllPending = FALSE
  /\ notifications = <<>>
  /\ unreadCount = 0
  /\ searchTerm = <<>>
  /\ filterType = "all"
  /\ filterPriority = "all"
  /\ isLoading = FALSE
  /\ loadTask = "idle"
  /\ loadData = <<>>
  /\ ackPending = [id \in DashIds |-> 0]
  /\ ackAllPending = FALSE
  /\ dashRealtime = <<>>
  /\ relayReq = NoRequest
  /\ relayOut = NoResponse
  /\ EdgeIdle
  /\ closures = <<>>
  /\ deregistered = [a \in Audiences |-> {}]
  /\ lastOp = Op("new", 0, "void", <<>>)
  /\ clock = 1

SpecListeners == InitListeners /\ [][NextListeners]_vars

\* C2: after the closure returned by addInAppListener(cb) has been called
\* (and cb has not been registered again), no in-app fan-out invokes cb,
\* and the fan-out invokes every registration that is still in the list
InAppFanOut ==
  \/ lastOp.op \in {"realtimeInsert", "realtimeUpdate"}
  \/ lastOp.op = "sendTestNotification" /\ lastOp.ret = "void"

C2_UnsubscribedNotInvoked ==
  InAppFanOut =>
    /\ \A cb \in deregistered["inApp"] : cb \notin Range(lastOp.invoked)
    /\ \A cb \in Callbacks :
         Count(lastOp.invoked, cb) = Count(inAppListeners, cb)

C2_Witness ==
  /\ InAppFanOut
  /\ "cbA" \in deregistered["inApp"]
  /\ lastOp.invoked = <<"cbB">>

\* C3: when a callback is registered twice, calling one of the two closures
\* removes exactly one of the two registrations
C3_IndependentlyRemovable ==
  [][\A i \in 1..Len(closures) :
       (/\ ~closures[i].called
        /\ Len(closures') = Len(closures)
        /\ closures'[i].called
        /\ Count(Listeners(closures[i].aud), closures[i].cb) = 2)
       => Count(Listeners(closures[i].aud)', closures[i].cb) = 1]_vars

\* ---------------------------------------------------------------------
\* The cache cap: every added notification carries a fresh id
\* ---------------------------------------------------------------------
CRealtimeInsert ==
  /\ clock <= MaxAdds
  /\ supabaseSubscription \in channels
  /\ HandleInAppNotification("realtimeInsert", Notif(clock, FALSE))
  /\ clock' = clock + 1
  /\ UNCHANGED <<dashVars, relayVars, edgeVars>>

CSendTestNotification ==
  /\ clock <= MaxAdds
  /\ SendTestNotification(clock, FALSE)
  /\ clock' = clock + 1
  /\ UNCHANGED <<dashVars, relayVars, edgeVars>>

CPushMessage ==
  /\ clock <= MaxAdds
  /\ swHandlers > 0
  /\ HandlePushReceived(Notif(clock, FALSE))
  /\ clock' = clock + 1
  /\ UNCHANGED <<dashVars, relayVars, edgeVars>>

NextCache ==
  \/ CRealtimeInsert
  \/ CSendTestNotification
  \/ CPushMessage

SpecCache == InitListeners /\ [][NextCache]_vars

\* C1: the local cache never holds more than 100 items, whichever path
\* added the last one, and the most recently added item is its first element
C1_CacheBounded ==
  /\ Len(localNotifications) <= CacheCap
  /\ localNotifications # <<>> => Head(localNotifications).id = clock - 1

\* ---------------------------------------------------------------------
\* Start-up, shutdown and push subscription
\* ---------------------------------------------------------------------
IInitialize == \E p \in Callers : Initialize(p) /\ UNCHANGED <<clock, dashVars, relayVars, edgeVars>>

IPushRegistered ==
  \E p \in Callers, ok \in BOOLEAN : InitPushRegistered(p, ok) /\ UNCHANGED <<clock, dashVars, relayVars, edgeVars>>

IPushReady == \E p \in Callers : InitPushReady(p) /\ UNCHANGED <<clock, dashVars, relayVars, edgeVars>>

ISupabaseTested ==
  \E p \in Callers, ok \in BOOLEAN : InitSupabaseTested(p, ok) /\ UNCHANGED <<clock, dashVars, relayVars, edgeVars>>

IInitializeDone == \E p \in Callers : InitializeDone(p) /\ UNCHANGED <<clock, dashVars, relayVars, edgeVars>>

IChannelStatus ==
  \E subscribed \in BOOLEAN : ChannelStatus(subscribed) /\ UNCHANGED <<clock, dashVars, relayVars, edgeVars>>

IDisconnect == Disconnect /\ UNCHANGED <<clock, dashVars, relayVars, edgeVars>>

ISubscribeToPush ==
  \E answer \in Permissions, browserOk \in BOOLEAN :
    SubscribeToPush(answer, browserOk) /\ UNCHANGED <<clock, dashVars, relayVars, edgeVars>>

IUnsubscribeFromPush ==
  \E outcome \in {"true", "false", "throw"} :
    UnsubscribeFromPush(outcome) /\ UNCHANGED <<clock, dashVars, relayVars, edgeVars>>

NextInit ==
  \/ IInitialize
  \/ IPushRegistered
  \/ IPushReady
  \/ ISupabaseTested
  \/ IInitializeDone
  \/ IChannelStatus
  \/ IDisconnect
  \/ ISubscribeToPush
  \/ IUnsubscribeFromPush

SpecInit == Init /\ [][NextInit]_vars

\* C4: initialize() called while the service is initialized returns true
\* and changes nothing: no register() call, no further 'message' handler,
\* no further realtime channel, no field of the service
C4_SecondInitializeNoOp ==
  [][(isInitialized /\ lastOp'.op = "initialize") =>
       /\ lastOp'.ret = "true"
       /\ UNCHANGED <<listenerVars, connVars, localNotifications, envVars>>]_vars

C4_Witness ==
  /\ lastOp = Op("initialize", 0, "true", <<>>)
  /\ isInitialized
  /\ registerCalls = 1
  /\ swHandlers = 1
  /\ channels = {1}

\* C6 as claimed: with a worker registration, a denied permission request
\* makes subscribeToPush throw to its caller
C6_DeniedThrows ==
  (lastOp.op = "subscribeToPush" /\ serviceWorkerRegistration
     /\ permission = "denied")
  => lastOp.ret = "throw"

\* C6 as amended: subscribeToPush never throws; it returns null when there
\* is no worker registration and also when the permission is not granted
C6_SubscribeReturnsNull ==
  lastOp.op = "subscribeToPush" =>
    /\ lastOp.ret # "throw"
    /\ (~serviceWorkerRegistration \/ permission # "granted")
         => lastOp.ret = "null"

C6_Witness ==
  /\ lastOp.op = "subscribeToPush"
  /\ serviceWorkerRegistration
  /\ permission = "denied"
  /\ lastOp.ret = "null"

\* ---------------------------------------------------------------------
\* Read state of the cache against the table and its realtime stream
\* ---------------------------------------------------------------------
\* the service after initialize(): database configured and channel open, or
\* local-only mode
InitRead ==
  /\ inAppListeners = <<>>
  /\ pushListeners = <<>>
  /\ localNotifications = <<>>
  /\ isInitialized = TRUE
  /\ isSupabaseAvailable \in BOOLEAN
  /\ isSupabaseConnected = isSupabaseAvailable
  /\ supabaseSubscription = IF isSupabaseAvailable THEN 1 ELSE 0
  /\ serviceWorkerRegistration = TRUE
  /\ pushSubscription = FALSE
  /\ initTask = [p \in Callers |-> IdleTask]
  /\ pushSupported = TRUE
  /\ permission = "granted"
  /\ registerCalls = 1
  /\ swHandlers = 1
  /\ channels = IF isSupabaseAvailable THEN {1} ELSE {}
  /\ channelsOpened = IF isSupabaseAvailable THEN 1 ELSE 0
  /\ db = [id \in RowIds |-> NoRow]
  /\ realtime = <<>>
  /\ markPending = {}
  /\ markAllPending = FALSE
  /\ notifications = <<>>
  /\ unreadCount = 0
  /\ searchTerm = <<>>
  /\ filterType = "all"
  /\ filterPriority = "all"
  /\ isLoading = FALSE
  /\ loadTask = "idle"
  /\ loadData = <<>>
  /\ ackPending = [id \in DashIds |-> 0]
  /\ ackAllPending = FALSE
  /\ dashRealtime = <<>>
  /\ relayReq = NoRequest
  /\ relayOut = NoResponse
  /\ EdgeIdle
  /\ closures = <<>>
  /\ deregistered = [a \in Audiences |-> {}]
  /\ lastOp = Op("new", 0, "void", <<>>)
  /\ clock = 1

QueueRoom == Len(realtime) + Cardinality(channels) <= MaxEvents

RIntakeInsert ==
  /\ QueueRoom
  /\ \E id \in RowIds : IntakeInsert(id)
  /\ UNCHANGED <<clock, dashVars, relayVars, edgeVars>>

RDashboardAckRow ==
  /\ QueueRoom
  /\ \E id \in RowIds : DashboardAckRow(id)
  /\ UNCHANGED <<clock, dashVars, relayVars, edgeVars>>

RDashboardAckAllRows ==
  /\ Len(realtime) + NumRows * Cardinality(channels) <= MaxEvents
  /\ DashboardAckAllRows
  /\ UNCHANGED <<clock, dashVars, relayVars, edgeVars>>

RRelayPatchRow ==
  /\ QueueRoom
  /\ \E id \in RowIds : RelayPatchRow(id)
  /\ UNCHANGED <<clock, dashVars, relayVars, edgeVars>>

RDeliverRealtime ==
  /\ realtime # <<>>
  /\ Head(realtime).kind = "INSERT" => Len(localNotifications) < MaxCached
  /\ DeliverRealtime
  /\ UNCHANGED <<clock, dashVars, relayVars, edgeVars>>

RPushMessage ==
  /\ swHandlers > 0
  /\ Len(localNotifications) < MaxCached
  /\ \E id \in RowIds : HandlePushReceived(Notif(id, FALSE))
  /\ UNCHANGED <<clock, dashVars, relayVars, edgeVars>>

RMarkAsRead ==
  \E id \in RowIds : MarkAsRead(id) /\ UNCHANGED <<clock, dashVars, relayVars, edgeVars>>

RMarkAsReadSettled ==
  /\ QueueRoom
  /\ \E id \in RowIds, ok \in BOOLEAN : MarkAsReadSettled(id, ok)
  /\ UNCHANGED <<clock, dashVars, relayVars, edgeVars>>

RMarkAllAsRead == MarkAllAsRead /\ UNCHANGED <<clock, dashVars, relayVars, edgeVars>>

RMarkAllAsReadSettled ==
  /\ Len(realtime) + NumRows * Cardinality(channels) <= MaxEvents
  /\ \E ok \in BOOLEAN : MarkAllAsReadSettled(ok)
  /\ UNCHANGED <<clock, dashVars, relayVars, edgeVars>>

NextRead ==
  \/ RIntakeInsert
  \/ RDashboardAckRow
  \/ RDashboardAckAllRows
  \/ RRelayPatchRow
  \/ RDeliverRealtime
  \/ RPushMessage
  \/ RMarkAsRead
  \/ RMarkAsReadSettled
  \/ RMarkAllAsRead
  \/ RMarkAllAsReadSettled

SpecRead == InitRead /\ [][NextRead]_vars

\* the is_read flag of the cached entry that findIndex gives for id
CachedRead(id) ==
  /\ FindIndex(localNotifications, id) # 0
  /\ localNotifications[FindIndex(localNotifications, id)].is_read

\* C5: once the cached entry for an id has is_read true, no later
\* markAsRead, markAllAsRead or realtime event makes the cached entry for
\* that id have is_read false
C5_ReadMonotonic ==
  [][\A id \in RowIds :
       (/\ CachedRead(id)
        /\ lastOp'.op \in {"markAsRead", "markAsReadSettled", "markAllAsRead",
                         "markAllAsReadSettled", "realtimeUpdate"}
        /\ FindIndex(localNotifications', id) # 0)
       => CachedRead(id)']_vars

\* ---------------------------------------------------------------------
\* The relay serving requests
\* ---------------------------------------------------------------------
Requests ==
  [method : {"OPTIONS", "POST"},
   priority : {"absent", "low", "medium", "high", "urgent", "critical"},
   action_url : {"absent", "/alerts"},
   user_id : {"absent", "u1"},
   id : {0},
   configured : BOOLEAN,
   providerOk : BOOLEAN]

InitRelay ==
  /\ InitIdle
  /\ notifications = <<>>
  /\ relayReq \in Requests
  /\ relayOut = NoResponse
  /\ EdgeIdle

FServe == RelayServe

FReceive == \E req \in Requests : RelayReceive(req)

NextRelay ==
  \/ FServe
  \/ FReceive

SpecRelay == InitRelay /\ [][NextRelay]_vars

Relayed == relayOut.status = 200 /\ relayReq.method = "POST"

FilterItems ==
  {Item(1, FALSE, title, body, type, priority) :
     title \in Texts, body \in Texts, type \in Types, priority \in Priorities}

RECURSIVE ItemLists(_)
ItemLists(n) ==
  IF n = 0 THEN {<<>>}
  ELSE ItemLists(n - 1) \cup
       {Append(l, it) : l \in {x \in ItemLists(n - 1) : Len(x) = n - 1},
                        it \in FilterItems}

InitFilter ==
  /\ InitIdle
  /\ relayReq = NoRequest
  /\ relayOut = NoResponse
  /\ EdgeIdle
  /\ notifications \in ItemLists(MaxItems)

GSetSearchTerm == \E term \in Terms : SetSearchTerm(term)

GSetFilterType == \E type \in TypeFilters : SetFilterType(type)

GSetFilterPriority == \E priority \in PriorityFilters : SetFilterPriority(priority)

NextFilter ==
  \/ GSetSearchTerm
  \/ GSetFilterType
  \/ GSetFilterPriority

SpecFilter == InitFilter /\ [][NextFilter]_vars

\* the text contains the term, letter case ignored
ContainsIgnoringCase(t, term) ==
  \E k \in 0..(Len(t) - Len(term)) :
    \A i \in 1..Len(term) : LowerChar(t[k + i]) = LowerChar(term[i])

\* C8: an item is in the filtered result iff (the search term is empty or
\* the title or body contains it case-insensitively) and (the type filter
\* is "all" or equals the item's type) and (the priority filter is "all" or
\* equals the item's priority, an item without priority counting as medium)
C8_FilterPredicate ==
  \A i \in 1..Len(notifications) :
    LET item == notifications[i] IN
      (\E j \in 1..Len(filteredNotifications) : filteredNotifications[j] = item)
      <=>
      /\ \/ searchTerm = <<>>
         \/ ContainsIgnoringCase(item.title, searchTerm)
         \/ ContainsIgnoringCase(item.body, searchTerm)
      /\ filterType = "all" \/ item.type = filterType
      /\ filterPriority = "all" \/ PriorityOrMedium(item) = filterPriority

\* ---------------------------------------------------------------------
\* The Dashboard after mount
\* ---------------------------------------------------------------------
InitDash ==
  /\ InitIdle
  /\ relayReq = NoRequest
  /\ relayOut = NoResponse
  /\ EdgeIdle
  /\ notifications = <<>>

DLoadStart == LoadStart

DLoadAnswered == \E ok \in BOOLEAN : LoadAnswered(ok)

DLoadApply == LoadApply

DIntakeInsert == \E id \in RowIds : DashIntakeInsert(id)

DRealtimeInsert == DashRealtimeInsert

DApiNotification ==
  /\ clock <= MaxApi
  /\ ApiNotification(clock, "absent")
  /\ clock' = clock + 1

RECURSIVE PendingOf(_)
PendingOf(ids) ==
  IF ids = {} THEN 0
  ELSE LET id == CHOOSE i \in ids : TRUE
       IN ackPending[id] + PendingOf(ids \ {id})

\* acknowledge requests the Dashboard has not had an answer to
InFlight == PendingOf(DashIds) + (IF ackAllPending THEN 1 ELSE 0)

DAcknowledge ==
  /\ InFlight < MaxClicks
  /\ \E id \in DashIds : Acknowledge(id)

DAcknowledgeSettled ==
  \E id \in DashIds, ok \in BOOLEAN : AcknowledgeSettled(id, ok)

DAcknowledgeAll ==
  /\ InFlight < MaxClicks
  /\ AcknowledgeAll

DAcknowledgeAllSettled == \E ok \in BOOLEAN : AcknowledgeAllSettled(ok)

NextDash ==
  \/ DLoadStart
  \/ DLoadAnswered
  \/ DLoadApply
  \/ DIntakeInsert
  \/ DRealtimeInsert
  \/ DApiNotification
  \/ DAcknowledge
  \/ DAcknowledgeSettled
  \/ DAcknowledgeAll
  \/ DAcknowledgeAllSettled

SpecDash == InitDash /\ [][NextDash]_vars

\* C9: after a successful "acknowledge all" the unread count is 0 and
\* every item of the list is acknowledged, whatever they were before
C9_AcknowledgeAll ==
  (lastOp.op = "acknowledgeAll" /\ lastOp.ret = "ok") =>
    /\ unreadCount = 0
    /\ \A i \in 1..Len(notifications) : notifications[i].acknowledged

C9_Witness ==
  /\ lastOp.op = "acknowledgeAll"
  /\ lastOp.ret = "ok"
  /\ lastOp.arg >= 2
  /\ Len(notifications) >= 2
  /\ unreadCount = 0

\* C10: a successful "acknowledge one" on an item that is not acknowledged
\* lowers the unread count by exactly 1, and the count is never below 0
C10_AcknowledgeOne ==
  [][/\ \A id \in DashIds :
          (/\ ackPending'[id] < ackPending[id]
           /\ \E i \in 1..Len(notifications) :
                /\ notifications[i].id = id
                /\ ~notifications[i].acknowledged
                /\ notifications'[i].acknowledged)
          => unreadCount' = unreadCount - 1
     /\ unreadCount' >= 0]_vars

\* ---------------------------------------------------------------------
\* The intake functions serving requests
\* ---------------------------------------------------------------------
\* tables of up to two rows, written with or without a user id
SubscriptionTables ==
  {<<>>}
  \cup {<<SubRow("e1", "k1", u, 0)>> : u \in Users \cup {"absent"}}
  \cup {<<SubRow("e1", "k1", u, 0), SubRow("e2", "k1", v, 0)>> :
          u \in Users \cup {"absent"}, v \in Users \cup {"absent"}}

SubscribeBodies ==
  {NoBody, Malformed}
  \cup {[EmptyObject EXCEPT !.endpoint = e, !.keys = k] :
          e \in Endpoints \cup {"absent"}, k \in {"absent", "partial", "k1"}}

\* the environment of an invocation: configured and whether the statement
\* succeeds
Environments == {<<TRUE, TRUE>>, <<TRUE, FALSE>>, <<FALSE, TRUE>>}

\* POSTs with every body in every environment; other methods with a valid
\* and a malformed body
SubscribeRequests ==
  {FnRequest("subscribe", v, "POST", b, env[1], env[2]) :
     v \in SubscribeVariants, b \in SubscribeBodies, env \in Environments}
  \cup {FnRequest("subscribe", v, m, b, TRUE, TRUE) :
          v \in SubscribeVariants, m \in Methods \ {"POST"},
          b \in {Malformed,
                 [EmptyObject EXCEPT !.endpoint = "e1", !.keys = "k1"]}}

NotificationBodies ==
  {NoBody, Malformed}
  \cup {[EmptyObject EXCEPT !.title = t, !.message = m, !.type = ty,
                            !.priority = pr] :
          t \in {"absent", "t"}, m \in {"absent", "m"},
          ty \in {"absent", "alert"}, pr \in {"absent", "high"}}

NotificationRequests ==
  {FnRequest("notifications", 1, "POST", b, env[1], env[2]) :
     b \in NotificationBodies, env \in Environments}
  \cup {FnRequest("notifications", 1, m, b, TRUE, TRUE) :
          m \in Methods \ {"POST"},
          b \in {Malformed,
                 [EmptyObject EXCEPT !.title = "t", !.message = "m"]}}

\* the functions deployed, the tables as other writers left them
InitFunctions ==
  /\ InitIdle
  /\ notifications = <<>>
  /\ relayReq = NoRequest
  /\ relayOut = NoResponse
  /\ UiIdle
  /\ ExtraIdle
  /\ subscriptions \in SubscriptionTables
  /\ fnReq = NoFnRequest
  /\ fnOut = NoFnResponse
  /\ fanout = IdleFanout
  /\ swClients = <<>>
  /\ swShown = <<>>
  /\ swOpened = <<>>
  /\ swEvent = NoEvent

NSubscribe ==
  \E req \in SubscribeRequests, t \in Times : SubscribeHandler(req, t)

NNotifications ==
  \E req \in NotificationRequests :
    /\ NotificationsAnswer(req).write => RowCount(db) < NumRows
    /\ NotificationsHandler(req)

NextSubscribe == NSubscribe

SpecSubscribe == InitFunctions /\ [][NextSubscribe]_vars

NextNotifications == NNotifications

SpecNotifications == InitFunctions /\ [][NextNotifications]_vars

\* rows of the table with that endpoint
RowsFor(table, e) ==
  Cardinality({i \in 1..Len(table) : table[i].endpoint = e})

\* C11: the subscription table never holds two rows for one endpoint, and
\* a successful POST of an endpoint leaves exactly one row for it, leaves
\* the other endpoints' rows as they were and, when the endpoint had a row
\* already, answers 200 without adding a row
C11_OneRowPerEndpoint ==
  [][/\ \A e \in Endpoints : RowsFor(subscriptions', e) <= 1
     /\ (/\ lastOp'.op = "subscribe"
         /\ lastOp'.ret = "200"
         /\ fnReq'.method = "POST")
        => /\ RowsFor(subscriptions', fnReq'.body.endpoint) = 1
           /\ \A e \in Endpoints \ {fnReq'.body.endpoint} :
                RowsFor(subscriptions', e) = RowsFor(subscriptions, e)
           /\ RowsFor(subscriptions, fnReq'.body.endpoint) = 1
                => Len(subscriptions') = Len(subscriptions)]_vars

C11_Witness ==
  /\ lastOp.op = "subscribe"
  /\ lastOp.ret = "200"
  /\ fnReq.method = "POST"
  /\ lastOp.arg = 2
  /\ Len(subscriptions) = 2
  /\ \E i \in 1..2 : /\ subscriptions[i].endpoint = fnReq.body.endpoint
                      /\ subscriptions[i].created_at = 1

\* the body is malformed or lacks endpoint or keys
BadSubscription(body) ==
  \/ body.kind \in {"none", "malformed"}
  \/ ~Truthy(body.endpoint)
  \/ ~Truthy(body.keys)

\* C12: a POST to the subscription intake whose body is malformed or lacks
\* endpoint or keys is answered 400 with an error text and writes no row
C12_BadSubscriptionRejected ==
  [][(/\ lastOp'.op = "subscribe"
      /\ fnReq'.method = "POST"
      /\ fnReq'.configured
      /\ BadSubscription(fnReq'.body))
     => /\ fnOut'.status = 400
        /\ fnOut'.error # ""
        /\ subscriptions' = subscriptions]_vars

\* a configured POST to the notification intake with a JSON object body
IntakePost ==
  /\ lastOp'.op = "notifications"
  /\ fnReq'.method = "POST"
  /\ fnReq'.configured
  /\ fnReq'.body.kind = "json"

\* the step added exactly one row, with the body's type and priority or
\* their defaults
OneRowInserted ==
  /\ RowCount(db') = RowCount(db) + 1
  /\ \E id \in RowIds :
       /\ ~db[id].exists
       /\ db'[id].exists
       /\ fnReq'.body.priority = "absent" => db'[id].priority = "medium"
       /\ fnReq'.body.type = "absent" => db'[id].type = "general"
       /\ fnReq'.body.priority # "absent"
            => db'[id].priority = fnReq'.body.priority
       /\ fnReq'.body.type # "absent" => db'[id].type = fnReq'.body.type

FanoutBodies ==
  {NoBody, Malformed}
  \cup {[EmptyObject EXCEPT !.user_id = u, !.title = t, !.message = "m"] :
          u \in Users \cup {"absent"}, t \in {"absent", "t"}}

\* POSTs with every body, the lookup succeeding or not; other methods
\* with a valid body
FanoutRequests ==
  {FnRequest("fanout", v, "POST", b, TRUE, ok) :
     v \in FanoutVariants, b \in FanoutBodies, ok \in BOOLEAN}
  \cup {FnRequest("fanout", v, m,
                  [EmptyObject EXCEPT !.user_id = "u1", !.title = "t",
                                      !.message = "m"], TRUE, TRUE) :
          v \in FanoutVariants, m \in Methods \ {"POST"}}

PReceive == \E req \in FanoutRequests : FanoutReceive(req)

PAttempt ==
  \E i \in 1..Len(fanout.tasks), outcome \in Outcomes, delOk \in BOOLEAN :
    FanoutAttempt(i, outcome, delOk)

PRespond == FanoutRespond

NextFanout == PReceive \/ PAttempt \/ PRespond

SpecFanout == InitFunctions /\ [][NextFanout]_vars

ValidFanout(req) ==
  /\ req.method = "POST"
  /\ req.body.kind = "json"
  /\ Truthy(req.body.user_id)
  /\ Truthy(req.body.title)
  /\ req.dbOk

\* C17 as claimed: every 200 of a fan-out carries counts with
\* sent + failed = total = the rows loaded.
C17_SentPlusFailed ==
  [][lastOp'.op = "fanoutRespond"
       => /\ fnOut'.status = 200
          /\ fnOut'.total = Len(fanout.tasks)
          /\ fnOut'.sent + fnOut'.failed = fnOut'.total]_vars

\* C17: a valid fan-out request whose lookup succeeds loads the user's rows
\* and is answered 200 once every delivery is settled, with total = the
\* rows loaded and 0 <= sent <= total; send-notification.js also answers
\* failed, with sent + failed = total, and the simple variant answers no
\* failed count.
C17_CountsAddUp ==
  [][/\ (lastOp'.op = "fanout" /\ ValidFanout(fnReq'))
          => /\ fanout'.pc = "sending"
             /\ fnOut' = NoFnResponse
             /\ Len(fanout'.tasks) =
                  Cardinality({k \in 1..Len(subscriptions) :
                                 subscriptions[k].user_id
                                   = fnReq'.body.user_id})
     /\ lastOp'.op = "fanoutRespond"
          => /\ fanout.variant = 1 => ValidFanout(fnReq)
             /\ fnOut'.status = 200
             /\ fnOut'.total = Len(fanout.tasks)
             /\ fnOut'.sent \in 0..fnOut'.total
             /\ fnOut'.sent =
                  Cardinality({k \in 1..Len(fanout.tasks) :
                                 fanout.tasks[k].value})
             /\ fanout.variant = 1
                  => /\ fnOut'.failed >= 0
                     /\ fnOut'.sent + fnOut'.failed = fnOut'.total
             /\ fanout.variant = 2 => fnOut'.failed = NoCount]_vars

\* send-notification.js answered a fan-out to two subscriptions, one
\* delivered and one not
C17_Witness ==
  /\ lastOp.op = "fanoutRespond"
  /\ fanout.variant = 1
  /\ fnOut.status = 200
  /\ fnOut.total = 2
  /\ fnOut.sent = 1
  /\ fnOut.failed = 1


\* ---------------------------------------------------------------------
\* The three functions deployed together
\* ---------------------------------------------------------------------
\* a body every function takes as valid
FullBody ==
  [EmptyObject EXCEPT !.endpoint = "e1", !.keys = "k1", !.user_id = "u1",
                      !.title = "t", !.message = "m"]

\* every method sent to every handler, with a valid and a malformed body
MethodRequests ==
  {FnRequest("subscribe", v, m, b, TRUE, TRUE) :
     v \in SubscribeVariants, m \in Methods, b \in {FullBody, Malformed}}
  \cup {FnRequest("notifications", 1, m, b, TRUE, TRUE) :
          m \in Methods, b \in {FullBody, Malformed}}
  \cup {FnRequest("fanout", v, m, b, TRUE, TRUE) :
          v \in FanoutVariants, m \in Methods, b \in {FullBody, Malformed}}

SSubscribe ==
  \E req \in MethodRequests, t \in Times :
    /\ req.fn = "subscribe"
    /\ fanout.pc # "sending"
    /\ SubscribeHandler(req, t)

SNotifications ==
  \E req \in MethodRequests :
    /\ req.fn = "notifications"
    /\ fanout.pc # "sending"
    /\ NotificationsAnswer(req).write => RowCount(db) < NumRows
    /\ NotificationsHandler(req)

SReceive ==
  \E req \in MethodRequests :
    /\ req.fn = "fanout"
    /\ FanoutReceive(req)

SAttempt ==
  \E i \in 1..Len(fanout.tasks), outcome \in Outcomes, delOk \in BOOLEAN :
    FanoutAttempt(i, outcome, delOk)

SRespond == FanoutRespond

NextFunctions ==
  SSubscribe \/ SNotifications \/ SReceive \/ SAttempt \/ SRespond

SpecFunctions == InitFunctions /\ [][NextFunctions]_vars

\* the handler answers OPTIONS itself as a preflight
HandlesPreflight(req) ==
  \/ req.fn = "subscribe" /\ req.variant \in {1, 3}
  \/ req.fn = "notifications"

\* C14: a request to the subscription intake, the notification intake or
\* the fan-out with a method other than POST, and other than OPTIONS where
\* the handler answers preflights, is answered 405, writes no row to either
\* table and starts no delivery.
C14_OtherMethods405 ==
  [][(/\ lastOp'.op \in {"subscribe", "notifications", "fanout"}
      /\ fnReq'.configured
      /\ fnReq'.method # "POST"
      /\ ~(fnReq'.method = "OPTIONS" /\ HandlesPreflight(fnReq')))
       => /\ fnOut'.status = 405
          /\ subscriptions' = subscriptions
          /\ db' = db
          /\ fanout'.pc # "sending"]_vars


\* ---------------------------------------------------------------------
\* The service worker
\* ---------------------------------------------------------------------
WorkerVariants == {"sw.ts", "part_004", "part_003"}

\* a || b on urls
OrUrl(a, b) == IF a # <<>> THEN a ELSE b

\* a message posted to a client
Posted(type, id) == [type |-> type, id |-> id]

\* the tag of a payload's priority
PriorityTag(priority, t) ==
  IF priority \in {"high", "urgent"} THEN Tag("mcm-urgent", t)
  ELSE IF priority = "low" THEN Tag("mcm-low", t)
  ELSE Tag("mcm-medium", t)

PriorityVibrate(priority) ==
  IF priority \in {"high", "urgent"} THEN <<300, 100, 300, 100, 300>>
  ELSE IF priority = "low" THEN <<100>>
  ELSE <<200, 100, 200>>

\* what the push handler of src/src/sw.ts displays at time t
DisplaySw(push, t) ==
  IF push.kind # "json"
  THEN Shown("MCM Alert", "New notification received",
             Tag("mcm-notification", 0), FALSE, <<200, 100, 200>>,
             "absent", Root)
  ELSE Shown(OrElse(push.title, "MCM Alert"),
             OrElse(push.message,
                      OrElse(push.body, "New notification received")),
             PriorityTag(push.priority, t),
             push.priority \in {"high", "urgent"},
             PriorityVibrate(push.priority),
             OrElse(push.id, "generated"),
             OrUrl(push.data_url, Root))

\* what the push handler of part_004 displays: the default tag is made
\* from Date.now() and data spreads the payload itself
Display004(push, t) ==
  IF push.kind # "json"
  THEN Shown("MCM Alert", "New notification received",
             Tag("mcm-notification", t), FALSE, <<200, 100, 200>>,
             "absent", Root)
  ELSE Shown(OrElse(push.title, "MCM Alert"),
             OrElse(push.message,
                      OrElse(push.body, "New notification received")),
             PriorityTag(push.priority, t),
             push.priority \in {"high", "urgent"},
             PriorityVibrate(push.priority),
             OrElse(push.id, "generated"),
             OrUrl(push.url, Root))

\* what the push handler of part_003 displays; event.data?.json() throws
\* on a payload that is not JSON and nothing is displayed
Display003(push) ==
  IF push.kind = "malformed" THEN NoShown
  ELSE IF push.kind = "none"
  THEN Shown("New notification", "", Tag("", 0), FALSE, <<200, 100, 200>>,
             "absent", <<>>)
  ELSE Shown(OrElse(push.title, "New notification"),
             OrElse(push.body, OrElse(push.message, "")),
             Tag("", 0), FALSE, <<200, 100, 200>>, push.id, push.url)

Display(variant, push, t) ==
  IF variant = "sw.ts" THEN DisplaySw(push, t)
  ELSE IF variant = "part_004" THEN Display004(push, t)
  ELSE Display003(push)

\* registration.showNotification: a notification replaces the displayed
\* one of the same tag
ShowNotification(shown, n) ==
  LET same == {i \in 1..Len(shown) :
                 n.tag.prefix # "" /\ shown[i].tag = n.tag}
  IN IF same = {} THEN Append(shown, n)
     ELSE [i \in 1..Len(shown) |-> IF i \in same THEN n ELSE shown[i]]

\* the clients as a handler finds them: what earlier events did to them
\* is not kept
Untouched(clients) ==
  [i \in 1..Len(clients) |->
     [clients[i] EXCEPT !.focused = 0, !.inbox = <<>>]]

\* self.clients.matchAll(): the clients the worker controls
Controlled(clients) == {i \in 1..Len(clients) : clients[i].controlled}

\* the push event handler
PushHandler(push, t) ==
  LET n == Display(swEvent.variant, push, t) IN
    /\ swEvent.kind # "none"
    /\ swShown' = IF n = NoShown THEN swShown ELSE ShowNotification(swShown, n)
    /\ swClients' =
         [i \in 1..Len(swClients) |->
            IF /\ swEvent.variant # "part_003"
               /\ i \in Controlled(swClients)
            THEN [swClients[i] EXCEPT
                    !.focused = 0,
                    !.inbox = <<Posted("PUSH_NOTIFICATION_RECEIVED", n.id)>>]
            ELSE Untouched(swClients)[i]]
    /\ swOpened' = <<>>
    /\ swEvent' = WorkerEvent("push", swEvent.variant, "none", push, n)
    /\ lastOp' = Op("push", Len(swShown'), "void", <<>>)
    /\ UNCHANGED <<serviceVars, dbVars, dashVars, relayVars, fnVars, uiVars, clock>>

\* the first index of a set of indices, 0 when there is none
FirstOf(S) == IF S = {} THEN 0 ELSE CHOOSE i \in S : \A j \in S : i <= j

\* what a click does: the client focused (0: none), whether a window is
\* opened, the clients MARK_NOTIFICATION_READ is posted to
Effect(focus, open, post) == [focus |-> focus, open |-> open, post |-> post]

\* event.notification.data?.url || '/'
UrlToOpen(n) == OrUrl(n.url, Root)

\* src/src/sw.ts lines 106-151
ClickSw(action, n, clients) ==
  LET found == FirstOf({i \in 1..Len(clients) :
                          Includes(clients[i].url, UrlToOpen(n))})
  IN IF action = "view" \/ action = ""
     THEN Effect(found, found = 0,
                 IF found # 0 /\ Truthy(n.id) THEN {found} ELSE {})
     ELSE IF action = "dismiss"
     THEN Effect(0, FALSE,
                 IF Truthy(n.id) THEN Controlled(clients) ELSE {})
     ELSE Effect(0, FALSE, {})

\* part_004 lines 124-172: the switch has cases 'view', undefined and
\* 'dismiss', and event.action of a click outside the buttons is ""
Click004(action, n, clients) ==
  LET found == FirstOf({i \in 1..Len(clients) :
                          Includes(clients[i].url, UrlToOpen(n))})
      post == IF Truthy(n.id) THEN 1..Len(clients) ELSE {}
  IN IF action = "view" THEN Effect(found, found = 0, post)
     ELSE Effect(0, FALSE, post)

\* part_003 lines 40-53: matchAll({ type: 'window' }) and c.url === urlToOpen
Click003(action, n, clients) ==
  LET found == FirstOf({i \in Controlled(clients) :
                          clients[i].url = UrlToOpen(n)})
  IN Effect(found, found = 0, {})

Click(variant, action, n, clients) ==
  IF variant = "sw.ts" THEN ClickSw(action, n, clients)
  ELSE IF variant = "part_004" THEN Click004(action, n, clients)
  ELSE Click003(action, n, clients)

\* the address a window opened at url shows
Resolve(url) ==
  IF Len(url) >= Len(Origin) /\ SubSeq(url, 1, Len(Origin)) = Origin
  THEN url ELSE Origin \o url

\* the displayed notifications without the k-th
Closed(shown, k) ==
  [i \in 1..(Len(shown) - 1) |-> IF i < k THEN shown[i] ELSE shown[i + 1]]

\* the notificationclick handler, on the k-th displayed notification
ClickHandler(k, action) ==
  /\ swEvent.kind # "none"
  /\ k \in 1..Len(swShown)
  /\ LET n == swShown[k]
         e == Click(swEvent.variant, action, n, swClients)
     IN /\ swShown' = Closed(swShown, k)
        /\ swClients' =
             [i \in 1..Len(swClients) |->
                [swClients[i] EXCEPT
                   !.focused = IF i = e.focus THEN 1 ELSE 0,
                   !.inbox = IF i \in e.post
                             THEN <<Posted("MARK_NOTIFICATION_READ", n.id)>>
                             ELSE <<>>]]
        /\ swOpened' = IF e.open THEN <<Resolve(UrlToOpen(n))>> ELSE <<>>
        /\ swEvent' =
             WorkerEvent("notificationclick", swEvent.variant, action,
                         NoPush, n)
        /\ lastOp' = Op("notificationclick", k, action, <<>>)
  /\ UNCHANGED <<serviceVars, dbVars, dashVars, relayVars, fnVars, uiVars, clock>>

\* ---------------------------------------------------------------------
\* The service worker receiving events
\* ---------------------------------------------------------------------
Json == [NoPush EXCEPT !.kind = "json"]

Unparseable == [NoPush EXCEPT !.kind = "malformed"]

PushPriorities == {"absent", "low", "medium", "high", "urgent"}

\* no payload, text that is not JSON, payloads of every priority, a
\* payload with an id, payloads without title and message, and payloads
\* that carry a url
Pushes ==
  {NoPush, Unparseable}
  \cup {[Json EXCEPT !.title = "X", !.message = "Y", !.priority = p] :
          p \in PushPriorities}
  \cup {[Json EXCEPT !.title = "X", !.message = "Y", !.priority = "high",
                     !.id = "n1"]}
  \cup {[Json EXCEPT !.body = b] : b \in {"absent", "B"}}
  \cup {[Json EXCEPT !.title = "X", !.message = "Y", !.id = "n1",
                     !.url = u, !.data_url = u] :
          u \in {Root, Alerts, Origin \o Alerts}}

PushTimes == {1, 2}

\* event.action: "" for a click outside the action buttons
ClickActions == {"", "view", "dismiss"}

ClientUrls == {Origin \o Root, Origin \o Alerts}

\* up to two open windows
ClientLists ==
  {<<>>}
  \cup {<<WindowClient(u, c)>> : u \in ClientUrls, c \in BOOLEAN}
  \cup {<<WindowClient(Origin \o Root, c), WindowClient(v, d)>> :
          c \in BOOLEAN, v \in ClientUrls, d \in BOOLEAN}

\* a worker installed, some windows open
InitWorker ==
  /\ InitIdle
  /\ notifications = <<>>
  /\ relayReq = NoRequest
  /\ relayOut = NoResponse
  /\ UiIdle
  /\ ExtraIdle
  /\ subscriptions = <<>>
  /\ fnReq = NoFnRequest
  /\ fnOut = NoFnResponse
  /\ fanout = IdleFanout
  /\ swClients \in ClientLists
  /\ swShown = <<>>
  /\ swOpened = <<>>
  /\ \E v \in WorkerVariants :
       swEvent = WorkerEvent("install", v, "none", NoPush, NoShown)

WPush ==
  \E push \in Pushes, t \in PushTimes :
    /\ Len(swShown) < MaxShown
    /\ PushHandler(push, t)

WClick ==
  \E k \in 1..Len(swShown), action \in ClickActions : ClickHandler(k, action)

NextWorker == WPush \/ WClick

SpecWorker == InitWorker /\ [][NextWorker]_vars

\* C18: a push with no data, or with data that is not JSON, is displayed
\* by sw.ts and part_004 with title "MCM Alert", body "New notification
\* received" and a generated tag or id; a payload with title X, message Y
\* and priority high or urgent is displayed with X, Y, requireInteraction
\* and vibration [300,100,300,100,300]; priority low gives [100] and any
\* other priority [200,100,200], both without requireInteraction.
C18_PushDisplay ==
  (swEvent.kind = "push" /\ swEvent.variant \in {"sw.ts", "part_004"})
    => LET d == swEvent.data
           n == swEvent.notification
       IN /\ d.kind \in {"none", "malformed"}
               => /\ n.title = "MCM Alert"
                  /\ n.body = "New notification received"
                  /\ n.tag.t # 0 \/ n.id = "generated"
          /\ (d.kind = "json" /\ Truthy(d.title) /\ Truthy(d.message))
               => /\ n.title = d.title
                  /\ n.body = d.message
                  /\ d.priority \in {"high", "urgent"}
                       => /\ n.requireInteraction
                          /\ n.vibrate = <<300, 100, 300, 100, 300>>
                  /\ d.priority = "low"
                       => /\ ~n.requireInteraction
                          /\ n.vibrate = <<100>>
                  /\ d.priority \notin {"high", "urgent", "low"}
                       => /\ ~n.requireInteraction
                          /\ n.vibrate = <<200, 100, 200>>

\* the clients focused by the last event
Focused == {i \in 1..Len(swClients) : swClients[i].focused > 0}

\* the clients showing the url of the clicked notification
Showing ==
  {i \in 1..Len(swClients) :
     swClients[i].url = Resolve(UrlToOpen(swEvent.notification))}

\* C19: after a click with no action or with action "view", either a
\* client that shows the notification's url (default "/") exists, one such
\* client is focused and no window is opened; or none exists, one window
\* is opened at that url and no client is focused.
C19_FocusOrOpen ==
  (swEvent.kind = "notificationclick" /\ swEvent.action \in {"", "view"})
    => IF Showing # {}
       THEN /\ Cardinality(Focused) = 1
            /\ Focused \subseteq Showing
            /\ swOpened = <<>>
       ELSE /\ Focused = {}
            /\ swOpened = <<Resolve(UrlToOpen(swEvent.notification))>>

\* C20: after a click, with the default, "view" or "dismiss" action, on a
\* notification that carries an id, every client of the worker of sw.ts
\* and part_004 has been posted MARK_NOTIFICATION_READ with that id, and a
\* "dismiss" focuses no client and opens no window.
C20_MarkReadPosted ==
  (/\ swEvent.kind = "notificationclick"
   /\ swEvent.variant \in {"sw.ts", "part_004"}
   /\ swEvent.action \in ClickActions
   /\ Truthy(swEvent.notification.id))
    => /\ \A i \in Controlled(swClients) :
            swClients[i].inbox
              = <<Posted("MARK_NOTIFICATION_READ", swEvent.notification.id)>>
       /\ swEvent.action = "dismiss"
            => /\ Focused = {}
               /\ swOpened = <<>>

\* ---------------------------------------------------------------------
\* Listener fan-out: throwing listeners and the two audiences
\* ---------------------------------------------------------------------
\* the audience a fan-out step went to
FanOutAudience ==
  IF lastOp.op = "pushMessage" THEN pushListeners ELSE inAppListeners

FanOut == InAppFanOut \/ lastOp.op = "pushMessage"

\* C22: when a listener of the audience throws during a fan-out (in-app,
\* update or push), every registration of that audience is still invoked
\* exactly once and the handler returns normally
C22_ThrowIsCaught ==
  (FanOut /\ \E cb \in Throwing : cb \in Range(FanOutAudience)) =>
    /\ lastOp.ret = "void"
    /\ Len(lastOp.invoked) = Len(FanOutAudience)
    /\ \A cb \in Callbacks :
         Count(lastOp.invoked, cb) = Count(FanOutAudience, cb)

C22_Witness ==
  /\ lastOp.op = "pushMessage"
  /\ pushListeners = <<"cbB", "cbA">>
  /\ lastOp.invoked = <<"cbB", "cbA">>

\* C23: the audiences are disjoint: a PUSH_NOTIFICATION_RECEIVED message
\* invokes registrations of the push list only, a realtime INSERT or
\* UPDATE or an in-app test notification registrations of the in-app list
\* only
C23_AudiencesDisjoint ==
  /\ lastOp.op = "pushMessage" =>
        \A cb \in Callbacks :
          Count(lastOp.invoked, cb) <= Count(pushListeners, cb)
  /\ InAppFanOut =>
        \A cb \in Callbacks :
          Count(lastOp.invoked, cb) <= Count(inAppListeners, cb)

C23_Witness ==
  /\ lastOp.op = "pushMessage"
  /\ inAppListeners = <<"cbA">>
  /\ pushListeners = <<"cbB">>
  /\ lastOp.invoked = <<"cbB">>

\* ---------------------------------------------------------------------
\* Read state: a failing update
\* ---------------------------------------------------------------------
\* C24: with a database configured, markAsRead sets is_read on the cached
\* entry (markAllAsRead on every cached entry) before the update is sent,
\* and when the update fails the call throws and leaves the cache as it is
C24_ThrowsAfterLocalChange ==
  [][/\ \A id \in RowIds :
          (/\ lastOp' = Op("markAsRead", id, "pending", <<>>)
           /\ FindIndex(localNotifications, id) # 0)
          => CachedRead(id)'
     /\ (lastOp'.op = "markAllAsRead" /\ lastOp'.ret = "pending")
         => \A i \in 1..Len(localNotifications') :
              localNotifications'[i].is_read
     /\ (/\ lastOp'.op \in {"markAsReadSettled", "markAllAsReadSettled"}
          /\ lastOp'.ret = "throw")
         => localNotifications' = localNotifications]_vars

C24_Witness ==
  /\ isSupabaseAvailable
  /\ lastOp.op = "markAsReadSettled"
  /\ lastOp.ret = "throw"
  /\ CachedRead(lastOp.arg)

\* ---------------------------------------------------------------------
\* disconnect() and the events after it
\* ---------------------------------------------------------------------
\* C26: disconnect() leaves both listener lists empty, the service not
\* initialized and not connected, removes the realtime channel the service
\* holds when a database is configured, and leaves the cache as it is;
\* while the lists are as it left them (no new registration), no event
\* invokes a listener
C26_Disconnect ==
  [][/\ lastOp'.op = "disconnect" =>
          /\ inAppListeners' = <<>>
          /\ pushListeners' = <<>>
          /\ ~isInitialized'
          /\ ~isSupabaseConnected'
          /\ (isSupabaseAvailable /\ supabaseSubscription # 0) =>
                /\ supabaseSubscription \notin channels'
                /\ supabaseSubscription' = 0
          /\ localNotifications' = localNotifications
     /\ (/\ inAppListeners = <<>>
          /\ pushListeners = <<>>
          /\ lastOp'.op \in {"realtimeInsert", "realtimeUpdate",
                             "sendTestNotification", "pushMessage"})
         => lastOp'.invoked = <<>>]_vars

\* a push message after a disconnect that removed a push registration
C26_Witness ==
  /\ lastOp.op = "pushMessage"
  /\ lastOp.invoked = <<>>
  /\ supabaseSubscription = 0
  /\ pushListeners = <<>>
  /\ \E i \in 1..Len(closures) :
       closures[i].aud = "push" /\ ~closures[i].called

\* ---------------------------------------------------------------------
\* The notifications table under concurrent writers
\* ---------------------------------------------------------------------
\* C27: in the table, acknowledged = true is stable under every
\* interleaving of acknowledge-one, acknowledge-all, markAsRead,
\* markAllAsRead and the relay's metadata patch, and no step deletes a row
C27_AcknowledgedStable ==
  [][\A id \in RowIds :
       db[id].exists =>
         /\ db'[id].exists
         /\ db[id].acknowledged => db'[id].acknowledged]_vars

\* the relay patches a row that a session has acknowledged
C27_Witness ==
  /\ lastOp.op = "relayPatchRow"
  /\ db[lastOp.arg].exists
  /\ db[lastOp.arg].acknowledged

\* ---------------------------------------------------------------------
\* sendTestNotification with and without a worker registration
\* ---------------------------------------------------------------------
\* the priority only goes into the notification's text
TestPriorities == {"medium", "urgent"}

\* the service after initialize(), whose register() succeeded or failed
InitTest ==
  /\ inAppListeners = <<>>
  /\ pushListeners = <<>>
  /\ localNotifications = <<>>
  /\ isInitialized = TRUE
  /\ isSupabaseAvailable = TRUE
  /\ isSupabaseConnected = TRUE
  /\ supabaseSubscription = 1
  /\ serviceWorkerRegistration \in BOOLEAN
  /\ pushSubscription = FALSE
  /\ initTask = [p \in Callers |-> IdleTask]
  /\ pushSupported = TRUE
  /\ permission = "granted"
  /\ registerCalls = 1
  /\ swHandlers = IF serviceWorkerRegistration THEN 1 ELSE 0
  /\ channels = {1}
  /\ channelsOpened = 1
  /\ db = [id \in RowIds |-> NoRow]
  /\ realtime = <<>>
  /\ markPending = {}
  /\ markAllPending = FALSE
  /\ notifications = <<>>
  /\ unreadCount = 0
  /\ searchTerm = <<>>
  /\ filterType = "all"
  /\ filterPriority = "all"
  /\ isLoading = FALSE
  /\ loadTask = "idle"
  /\ loadData = <<>>
  /\ ackPending = [id \in DashIds |-> 0]
  /\ ackAllPending = FALSE
  /\ dashRealtime = <<>>
  /\ relayReq = NoRequest
  /\ relayOut = NoResponse
  /\ EdgeIdle
  /\ closures = <<>>
  /\ deregistered = [a \in Audiences |-> {}]
  /\ lastOp = Op("new", 0, "void", <<>>)
  /\ clock = 1

TAddListener ==
  \E aud \in Audiences, cb \in Callbacks :
    AddListener(aud, cb) /\ UNCHANGED <<clock, dashVars, relayVars, edgeVars>>

TRealtimeInsert ==
  /\ supabaseSubscription \in channels
  /\ Len(localNotifications) < MaxLocal
  /\ \E id \in LIds : HandleInAppNotification("realtimeInsert", Notif(id, FALSE))
  /\ UNCHANGED <<clock, dashVars, relayVars, edgeVars>>

TSendTestNotification ==
  \E t \in Times, priority \in TestPriorities, pushOnly \in BOOLEAN :
    /\ (pushOnly /\ serviceWorkerRegistration) \/ Len(localNotifications) < MaxLocal
    /\ SendTestNotification(TestId(t), pushOnly)
    /\ testCall' = [priority |-> priority, pushOnly |-> pushOnly]
    /\ UNCHANGED <<clock, dashVars, relayVars, fnVars, workerVars, overlayVars,
                   dialogVars, shellVars, extraVars>>

NextTest ==
  \/ TAddListener
  \/ TRealtimeInsert
  \/ TSendTestNotification

SpecTest == InitTest /\ [][NextTest]_vars

\* C25: sendTestNotification with pushOnly true and a worker registration
\* only posts to the worker: the cache and both listener lists stay as they
\* are and no listener is invoked; in every other case the test
\* notification goes to the front of the cache and every in-app listener is
\* invoked, as for an incoming in-app notification
C25_TestNotification ==
  [][lastOp'.op = "sendTestNotification" =>
       /\ UNCHANGED <<inAppListeners, pushListeners>>
       /\ IF testCall'.pushOnly /\ serviceWorkerRegistration
          THEN /\ lastOp'.ret = "posted"
               /\ localNotifications' = localNotifications
               /\ lastOp'.invoked = <<>>
          ELSE /\ lastOp'.ret = "void"
               /\ Len(localNotifications') = Len(localNotifications) + 1
               /\ Head(localNotifications') = [id |-> lastOp'.arg, is_read |-> FALSE]
               /\ Tail(localNotifications') = localNotifications
               /\ Len(lastOp'.invoked) = Len(inAppListeners)
               /\ \A cb \in Callbacks :
                    Count(lastOp'.invoked, cb) = Count(inAppListeners, cb)]_vars

C25_Witness ==
  /\ lastOp.op = "sendTestNotification"
  /\ lastOp.ret = "posted"
  /\ testCall.pushOnly
  /\ serviceWorkerRegistration
  /\ inAppListeners # <<>>
  /\ localNotifications # <<>>

\* ---------------------------------------------------------------------
\* From the notification intake to the listeners: the realtime stream
\* under fair delivery
\* ---------------------------------------------------------------------
StreamBodies ==
  {[EmptyObject EXCEPT !.title = "t", !.message = "m"],
   [EmptyObject EXCEPT !.message = "m"]}

StreamRequests ==
  {FnRequest("notifications", 1, "POST", b, TRUE, ok) :
     b \in StreamBodies, ok \in BOOLEAN}

MIntake ==
  \E req \in StreamRequests :
    /\ NotificationsAnswer(req).write => (RowCount(db) < NumRows /\ QueueRoom)
    /\ NotificationsHandler(req)

MDeliverRealtime ==
  DeliverRealtime /\ UNCHANGED <<clock, dashVars, relayVars, edgeVars>>

MAddListener ==
  \E cb \in Callbacks :
    AddListener("inApp", cb) /\ UNCHANGED <<clock, dashVars, relayVars, edgeVars>>

MPushMessage ==
  /\ swHandlers > 0
  /\ Len(localNotifications) < MaxCached
  /\ \E t \in Times : HandlePushReceived(Notif(PushId(t), FALSE))
  /\ UNCHANGED <<clock, dashVars, relayVars, edgeVars>>

MDisconnect == Disconnect /\ UNCHANGED <<clock, dashVars, relayVars, edgeVars>>

NextStream ==
  \/ MIntake
  \/ MDeliverRealtime
  \/ MAddListener
  \/ MPushMessage
  \/ MDisconnect

\* the realtime client keeps handing over the events it has received
SpecStream ==
  InitListeners /\ [][NextStream]_vars /\ WF_vars(MDeliverRealtime)

\* an INSERT event for the row is on its way to the session
Queued(id) ==
  \E i \in 1..Len(realtime) :
    realtime[i].kind = "INSERT" /\ realtime[i].new.id = id

\* the session has just handled the INSERT event for the row: every in-app
\* listener invoked, the row at the front of the cache
Delivered(id) ==
  /\ lastOp.op = "realtimeInsert"
  /\ lastOp.arg = id
  /\ localNotifications # <<>>
  /\ Head(localNotifications).id = id
  /\ Len(lastOp.invoked) = Len(inAppListeners)
  /\ \A cb \in Callbacks :
       Count(lastOp.invoked, cb) = Count(inAppListeners, cb)

\* C21 as stated: every row inserted through the intake while the session's
\* subscription is open is eventually delivered to the session's in-app
\* listeners and put at the front of its cache
C21_EventuallyDelivered ==
  \A id \in RowIds : Queued(id) ~> Delivered(id)

\* C21 as amended: ... is eventually delivered, unless the session
\* disconnects before the event arrives
C21_DeliveredUnlessDisconnected ==
  \A id \in RowIds :
    Queued(id) ~> (Delivered(id) \/ supabaseSubscription = 0)

C21_Witness ==
  /\ \E id \in RowIds : Delivered(id)
  /\ Len(localNotifications) > 1
  /\ inAppListeners # <<>>
  /\ fnOut.status = 200

\* ---------------------------------------------------------------------
\* The in-app overlay (src/components/InAppNotificationSystem.tsx)
\* ---------------------------------------------------------------------
\* the callback the overlay registers with addInAppListener on mount
OverlayCallback == "cbA"

\* prev.slice(0, 4)
OverlayKeep == 4

\* setTimeout(..., 300)
DismissDelay == 300

\* { ...notification, isVisible: true }; 0 stands for no dismissedAt
DisplayNotification(n) == [id |-> n.id, isVisible |-> TRUE, dismissedAt |-> 0]

\* prev => [displayNotification, ...prev.slice(0, 4)]
Receive(prev, n) == <<DisplayNotification(n)>> \o Slice(prev, OverlayKeep)

\* the overlay's listener, when the fan-out has invoked it
OverlayListener(invoked, n) ==
  overlayNotifications' =
    IF OverlayCallback \in Range(invoked)
    THEN Receive(overlayNotifications, n)
    ELSE overlayNotifications

\* prev.map(n => n.id === id ? {...n, isVisible: false, dismissedAt} : n)
Hide(prev, id, now) ==
  [i \in 1..Len(prev) |->
     IF prev[i].id = id
     THEN [prev[i] EXCEPT !.isVisible = FALSE, !.dismissedAt = now]
     ELSE prev[i]]

RECURSIVE Remove(_, _)
\* prev.filter(n => n.id !== id)
Remove(prev, id) ==
  IF prev = <<>> THEN <<>>
  ELSE IF Head(prev).id = id THEN Remove(Tail(prev), id)
       ELSE <<Head(prev)>> \o Remove(Tail(prev), id)

DismissTask(id, pc, markOk, hiddenAt, removedAt) ==
  [id |-> id, pc |-> pc, markOk |-> markOk, hiddenAt |-> hiddenAt,
   removedAt |-> removedAt]

\* dismissNotification(notification) up to its await: markAsRead is called
DismissNotification(k) ==
  /\ k \in 1..Len(overlayNotifications)
  /\ overlayNotifications[k].isVisible
  /\ MarkAsRead(overlayNotifications[k].id)
  /\ dismissTasks' =
       Append(dismissTasks,
              DismissTask(overlayNotifications[k].id, "marking", "pending", 0, 0))
  /\ UNCHANGED overlayNotifications

\* what the settling of markAsRead(id) does to the service and the table
MarkSettles(id, ok) ==
  IF id \in markPending
  THEN MarkAsReadSettled(id, ok)
  ELSE /\ lastOp' = Op("markAsReadSettled", id,
                       IF ok THEN "void" ELSE "throw", <<>>)
       /\ UNCHANGED <<listenerVars, connVars, localNotifications, envVars>>

DismissMarkSettledNoCatch(t, ok) ==
  /\ t \in 1..Len(dismissTasks)
  /\ dismissTasks[t].pc = "marking"
  /\ ok \/ isSupabaseAvailable
  /\ MarkSettles(dismissTasks[t].id, ok)
  /\ IF ok
     THEN /\ overlayNotifications' =
               Hide(overlayNotifications, dismissTasks[t].id, clock)
          /\ dismissTasks' =
               [dismissTasks EXCEPT ![t].pc = "hidden", ![t].markOk = "true",
                                    ![t].hiddenAt = clock]
     ELSE /\ dismissTasks' =
               [dismissTasks EXCEPT ![t].pc = "threw", ![t].markOk = "false"]
          /\ UNCHANGED overlayNotifications

\* dismissNotification after the await: the catch logs a failure, then the
\* card is hidden and the removal timer is started
DismissMarkSettled(t, ok) ==
  /\ t \in 1..Len(dismissTasks)
  /\ dismissTasks[t].pc = "marking"
  \* without a database markAsRead returns without a request
  /\ ok \/ isSupabaseAvailable
  /\ MarkSettles(dismissTasks[t].id, ok)
  /\ overlayNotifications' =
       Hide(overlayNotifications, dismissTasks[t].id, clock)
  /\ dismissTasks' =
       [dismissTasks EXCEPT ![t].pc = "hidden", ![t].markOk = BoolStr(ok),
                            ![t].hiddenAt = clock]

\* the timer of dismissNotification fires, no sooner than its delay
DismissTimer(t) ==
  /\ t \in 1..Len(dismissTasks)
  /\ dismissTasks[t].pc = "hidden"
  /\ clock' = Max(clock, dismissTasks[t].hiddenAt + DismissDelay)
  /\ overlayNotifications' = Remove(overlayNotifications, dismissTasks[t].id)
  /\ dismissTasks' =
       [dismissTasks EXCEPT ![t].pc = "removed", ![t].removedAt = clock']

\* the overlay mounted on a service with or without a database; its cards
\* come from in-app test notifications
InitOverlay ==
  /\ inAppListeners = <<OverlayCallback>>
  /\ pushListeners = <<>>
  /\ localNotifications = <<>>
  /\ isInitialized = TRUE
  /\ isSupabaseAvailable \in BOOLEAN
  /\ isSupabaseConnected = isSupabaseAvailable
  /\ supabaseSubscription = IF isSupabaseAvailable THEN 1 ELSE 0
  /\ serviceWorkerRegistration = TRUE
  /\ pushSubscription = FALSE
  /\ initTask = [p \in Callers |-> IdleTask]
  /\ pushSupported = TRUE
  /\ permission = "granted"
  /\ registerCalls = 1
  /\ swHandlers = 1
  /\ channels = IF isSupabaseAvailable THEN {1} ELSE {}
  /\ channelsOpened = IF isSupabaseAvailable THEN 1 ELSE 0
  /\ db = [id \in RowIds |-> NoRow]
  /\ realtime = <<>>
  /\ markPending = {}
  /\ markAllPending = FALSE
  /\ notifications = <<>>
  /\ unreadCount = 0
  /\ searchTerm = <<>>
  /\ filterType = "all"
  /\ filterPriority = "all"
  /\ isLoading = FALSE
  /\ loadTask = "idle"
  /\ loadData = <<>>
  /\ ackPending = [id \in DashIds |-> 0]
  /\ ackAllPending = FALSE
  /\ dashRealtime = <<>>
  /\ relayReq = NoRequest
  /\ relayOut = NoResponse
  /\ EdgeIdle
  /\ closures = <<[aud |-> "inApp", cb |-> OverlayCallback, called |-> FALSE]>>
  /\ deregistered = [a \in Audiences |-> {}]
  /\ lastOp = Op("new", 0, "void", <<>>)
  /\ clock = 1

\* what the overlay's steps leave alone
OverlayFrame ==
  UNCHANGED <<dashVars, relayVars, fnVars, workerVars, testCall, dialogVars,
              shellVars, extraVars>>

OSendTestNotification ==
  /\ Len(localNotifications) < MaxCached
  /\ \E t \in Times :
       /\ SendTestNotification(TestId(t), FALSE)
       /\ OverlayListener(lastOp'.invoked, Notif(TestId(t), FALSE))
  /\ UNCHANGED <<clock, dismissTasks>>
  /\ OverlayFrame

ODismissNotification ==
  /\ Len(dismissTasks) < MaxDismiss
  /\ \E k \in 1..Len(overlayNotifications) : DismissNotification(k)
  /\ UNCHANGED clock
  /\ OverlayFrame

ODismissMarkSettled ==
  /\ \E t \in 1..Len(dismissTasks), ok \in BOOLEAN : DismissMarkSettled(t, ok)
  /\ UNCHANGED clock
  /\ OverlayFrame

ODismissTimer ==
  /\ \E t \in 1..Len(dismissTasks) : DismissTimer(t)
  /\ UNCHANGED <<serviceVars, dbVars, lastOp>>
  /\ OverlayFrame

NextOverlay ==
  \/ OSendTestNotification
  \/ ODismissNotification
  \/ ODismissMarkSettled
  \/ ODismissTimer

\* the request of markAsRead settles and the browser runs due timers
SpecOverlay ==
  /\ InitOverlay
  /\ [][NextOverlay]_vars
  /\ WF_vars(ODismissMarkSettled)
  /\ WF_vars(ODismissTimer)

Shows(list, id) == \E i \in 1..Len(list) : list[i].id = id

\* C28: a dismissal always goes from the mark-as-read attempt to hiding the
\* card (isVisible false, dismissedAt set) and from there, 300 ms later, to
\* removing it from the list: every dismissal ends with the card removed,
\* also when mark-as-read failed
C28_DismissCompletes ==
  /\ \A t \in 1..MaxDismiss :
       (Len(dismissTasks) >= t)
         ~> (Len(dismissTasks) >= t /\ dismissTasks[t].pc = "removed")
  /\ [][\A t \in 1..Len(dismissTasks) :
          /\ dismissTasks'[t].pc # dismissTasks[t].pc =>
                \/ /\ dismissTasks[t].pc = "marking"
                   /\ dismissTasks'[t].pc = "hidden"
                   /\ \A i \in 1..Len(overlayNotifications') :
                        overlayNotifications'[i].id = dismissTasks[t].id =>
                          /\ ~overlayNotifications'[i].isVisible
                          /\ overlayNotifications'[i].dismissedAt = clock
                \/ /\ dismissTasks[t].pc = "hidden"
                   /\ dismissTasks'[t].pc = "removed"
                   /\ ~Shows(overlayNotifications', dismissTasks[t].id)
                   /\ clock' >= dismissTasks[t].hiddenAt + DismissDelay]_vars

\* a dismissal whose mark-as-read failed has removed its card
C28_Witness ==
  \E t \in 1..Len(dismissTasks) :
    /\ dismissTasks[t].pc = "removed"
    /\ dismissTasks[t].markOk = "false"
    /\ ~Shows(overlayNotifications, dismissTasks[t].id)

\* ---------------------------------------------------------------------
\* The notification settings dialog
\* (src/components/NotificationSettingsDialog.tsx)
\* ---------------------------------------------------------------------
DialogActions ==
  {"handleOneSignalSubscribe", "handleOneSignalUnsubscribe",
   "handleTestNotification"}

\* what the awaited service call gives: true, false, or it throws
CallOutcomes == {"true", "false", "throw"}

DialogTask(action, pc, outcome) ==
  [action |-> action, pc |-> pc, outcome |-> outcome]

\* handler calls that have not reached the end of their finally block
DialogInFlight(tasks) == {t \in 1..Len(tasks) : tasks[t].pc # "done"}

DialogInvokeNoGuard(action) ==
  /\ dialogIsLoading' = TRUE
  /\ dialogLastError' = "null"
  /\ dialogTasks' = Append(dialogTasks, DialogTask(action, "calling", "none"))
  /\ lastOp' = Op(action, Len(dialogTasks) + 1, "pending", <<>>)
  /\ UNCHANGED dialogStatus

\* handleOneSignalSubscribe / handleOneSignalUnsubscribe /
\* handleTestNotification up to the await of the service call; the handler
\* of the current render reads the current isLoading
DialogInvoke(action) ==
  IF dialogIsLoading
  THEN /\ lastOp' = Op(action, 0, "ignored", <<>>)
       /\ UNCHANGED dialogVars
  ELSE /\ dialogIsLoading' = TRUE
       /\ dialogLastError' = "null"
       /\ dialogTasks' = Append(dialogTasks, DialogTask(action, "calling", "none"))
       /\ lastOp' = Op(action, Len(dialogTasks) + 1, "pending", <<>>)
       /\ UNCHANGED dialogStatus

\* the service call settles: a true result of subscribe / unsubscribe goes
\* on to checkNotificationStatus; a false one is thrown; a throw is caught
\* into lastError; finally isLoading is set to false
DialogCallSettled(t, outcome) ==
  /\ t \in 1..Len(dialogTasks)
  /\ dialogTasks[t].pc = "calling"
  /\ LET action == dialogTasks[t].action
         failed == IF action = "handleTestNotification"
                   THEN outcome = "throw"
                   ELSE outcome # "true"
     IN IF ~failed /\ action # "handleTestNotification"
        THEN /\ dialogTasks' = [dialogTasks EXCEPT ![t].pc = "checking",
                                                   ![t].outcome = outcome]
             /\ UNCHANGED <<dialogIsLoading, dialogLastError, dialogStatus>>
        ELSE /\ dialogTasks' = [dialogTasks EXCEPT ![t].pc = "done",
                                                   ![t].outcome = outcome]
             /\ dialogLastError' = IF failed THEN "error" ELSE dialogLastError
             /\ dialogIsLoading' = FALSE
             /\ UNCHANGED dialogStatus
  /\ lastOp' = Op("serviceCallSettled", t, outcome, <<>>)

\* checkNotificationStatus() inside the handler settles: it catches its own
\* failure into lastError; then the handler's finally runs
DialogStatusChecked(t, ok, subscribed) ==
  /\ t \in 1..Len(dialogTasks)
  /\ dialogTasks[t].pc = "checking"
  /\ dialogTasks' = [dialogTasks EXCEPT ![t].pc = "done"]
  /\ dialogStatus' = IF ok THEN subscribed ELSE dialogStatus
  /\ dialogLastError' = IF ok THEN "null" ELSE "error"
  /\ dialogIsLoading' = FALSE
  /\ lastOp' = Op("statusChecked", t, BoolStr(ok), <<>>)

InitDialog ==
  /\ InitIdle
  /\ notifications = <<>>
  /\ relayReq = NoRequest
  /\ relayOut = NoResponse
  /\ EdgeIdle

DialogFrame ==
  UNCHANGED <<serviceVars, dbVars, dashVars, relayVars, fnVars, workerVars,
              testCall, overlayVars, shellVars, extraVars, clock>>

\* the buttons can be pressed, and `request` called, at any time
AInvoke ==
  /\ Len(dialogTasks) < MaxCalls \/ dialogIsLoading
  /\ \E action \in DialogActions : DialogInvoke(action)
  /\ DialogFrame

ACallSettled ==
  /\ \E t \in 1..Len(dialogTasks), outcome \in CallOutcomes :
       DialogCallSettled(t, outcome)
  /\ DialogFrame

AStatusChecked ==
  /\ \E t \in 1..Len(dialogTasks), ok \in BOOLEAN, subscribed \in BOOLEAN :
       DialogStatusChecked(t, ok, subscribed)
  /\ DialogFrame

NextDialog ==
  \/ AInvoke
  \/ ACallSettled
  \/ AStatusChecked

SpecDialog == InitDialog /\ [][NextDialog]_vars

\* C29: at most one of subscribe, unsubscribe and send-test is in flight;
\* an action invoked while isLoading is true makes no service call and
\* changes no state of the dialog; when the action in flight finishes,
\* having succeeded or thrown, isLoading is false again
C29_OneInFlight ==
  [][/\ Cardinality(DialogInFlight(dialogTasks')) <= 1
     /\ (dialogIsLoading /\ lastOp'.op \in DialogActions)
          => UNCHANGED dialogVars
     /\ \A t \in 1..Len(dialogTasks) :
          (dialogTasks[t].pc # "done" /\ dialogTasks'[t].pc = "done")
            => ~dialogIsLoading'
     /\ dialogIsLoading' <=> DialogInFlight(dialogTasks') # {}]_vars

\* send-test pressed while a subscribe is in flight
C29_Witness ==
  /\ lastOp = Op("handleTestNotification", 0, "ignored", <<>>)
  /\ dialogIsLoading
  /\ \E t \in DialogInFlight(dialogTasks) :
       dialogTasks[t].action = "handleOneSignalSubscribe"

\* ---------------------------------------------------------------------
\* The application shell (src/App.tsx): the startup effect and its cleanup
\* ---------------------------------------------------------------------
\* the callbacks the shell registers with the service catch what they throw
ShellCallback == "cbA"

\* the window events startup listens to
WindowEvents ==
  {"beforeinstallprompt", "appinstalled", "online", "offline",
   "push-notification-received", "api-notification-received",
   "onesignal-permission-changed", "onesignal-subscription-changed",
   "unhandledrejection"}

\* a registered listener: the target, the event and the function object
Listener(target, type, fn) == [target |-> target, type |-> type, fn |-> fn]

\* the function object of a `() => {}` written in the cleanup: a new one
FreshFunction == 0

\* target.removeEventListener(type, fn): removes that function only
RemoveEventListener(ls, type, fn) == ls \ {Listener("window", type, fn)}

\* what run r of startup installs once register() has settled; its
\* function objects are its own
Installed(r, registered) ==
  {Listener("window", e, r) : e \in WindowEvents}
  \cup (IF registered THEN {Listener("serviceWorker", "message", r)} ELSE {})

ShellRun(pc, tornDown) == [pc |-> pc, tornDown |-> tornDown]

\* the effect runs: initializeApp() up to `await initialize()`
ShellMount ==
  /\ \A r \in 1..Len(shellRuns) : shellRuns[r].tornDown
  /\ Initialize("shell")
  /\ shellRuns' = Append(shellRuns, ShellRun("initializing", FALSE))
  /\ UNCHANGED <<eventListeners, intervals, healthCheckInterval>>

\* initialize() has returned: navigator.serviceWorker.register('/sw.js') is
\* called and awaited
ShellInitialized(r) ==
  /\ r \in 1..Len(shellRuns)
  /\ shellRuns[r].pc = "initializing"
  /\ initTask["shell"].pc = "idle"
  /\ shellRuns' = [shellRuns EXCEPT ![r].pc = "registering"]
  /\ lastOp' = Op("shellInitialized", r, "void", <<>>)
  /\ UNCHANGED <<listenerVars, connVars, localNotifications, envVars,
                 eventListeners, intervals, healthCheckInterval>>

\* register() has settled (a failure is caught): the listeners are added,
\* the service listeners registered, the health check started, and
\* checkInitialPermissions() is awaited
ShellRegistered(r, ok) ==
  /\ r \in 1..Len(shellRuns)
  /\ shellRuns[r].pc = "registering"
  /\ shellRuns' = [shellRuns EXCEPT ![r].pc = "checking"]
  /\ eventListeners' = eventListeners \cup Installed(r, ok)
  /\ inAppListeners' = Append(inAppListeners, ShellCallback)
  /\ pushListeners' = Append(pushListeners, ShellCallback)
  /\ closures' = closures \o
       <<[aud |-> "inApp", cb |-> ShellCallback, called |-> FALSE],
         [aud |-> "push", cb |-> ShellCallback, called |-> FALSE]>>
  /\ deregistered' = [a \in Audiences |-> deregistered[a] \ {ShellCallback}]
  /\ intervals' = intervals \cup {r}
  /\ healthCheckInterval' = r
  /\ lastOp' = Op("shellInstalled", r, BoolStr(ok), <<>>)
  /\ UNCHANGED <<connVars, localNotifications, envVars>>

\* checkInitialPermissions() has returned: 'app-initialized' is dispatched
ShellPermissionsChecked(r) ==
  /\ r \in 1..Len(shellRuns)
  /\ shellRuns[r].pc = "checking"
  /\ shellRuns' = [shellRuns EXCEPT ![r].pc = "ready"]
  /\ lastOp' = Op("shellReady", r, "void", <<>>)
  /\ UNCHANGED <<listenerVars, connVars, localNotifications, envVars,
                 eventListeners, intervals, healthCheckInterval>>

\* the cleanup of the effect: disconnect(), removeEventListener with new
\* functions, the unsubscribers (they filter the lists disconnect() has
\* just emptied), clearInterval(window.healthCheckInterval)
ShellTeardown(r) ==
  /\ r \in 1..Len(shellRuns)
  /\ ~shellRuns[r].tornDown
  /\ Disconnect
  /\ eventListeners' =
       RemoveEventListener(
         RemoveEventListener(eventListeners, "online", FreshFunction),
         "offline", FreshFunction)
  /\ intervals' = IF healthCheckInterval # 0
                  THEN intervals \ {healthCheckInterval}
                  ELSE intervals
  /\ shellRuns' = [shellRuns EXCEPT ![r].tornDown = TRUE]
  /\ UNCHANGED healthCheckInterval

InitShell ==
  /\ InitIdle
  /\ notifications = <<>>
  /\ relayReq = NoRequest
  /\ relayOut = NoResponse
  /\ EdgeIdle

ShellFrame ==
  UNCHANGED <<dashVars, relayVars, fnVars, workerVars, testCall, overlayVars,
              dialogVars, extraVars, clock>>

HMount == Len(shellRuns) < MaxInits /\ ShellMount /\ ShellFrame

HPushRegistered ==
  \E ok \in BOOLEAN :
    InitPushRegistered("shell", ok) /\ UNCHANGED <<clock, dashVars, relayVars, edgeVars>>

HPushReady ==
  InitPushReady("shell") /\ UNCHANGED <<clock, dashVars, relayVars, edgeVars>>

HSupabaseTested ==
  \E ok \in BOOLEAN :
    InitSupabaseTested("shell", ok) /\ UNCHANGED <<clock, dashVars, relayVars, edgeVars>>

HInitializeDone ==
  InitializeDone("shell") /\ UNCHANGED <<clock, dashVars, relayVars, edgeVars>>

HInitialized == (\E r \in 1..Len(shellRuns) : ShellInitialized(r)) /\ ShellFrame

HRegistered ==
  /\ \E r \in 1..Len(shellRuns), ok \in BOOLEAN : ShellRegistered(r, ok)
  /\ ShellFrame

HPermissionsChecked ==
  (\E r \in 1..Len(shellRuns) : ShellPermissionsChecked(r)) /\ ShellFrame

HTeardown == (\E r \in 1..Len(shellRuns) : ShellTeardown(r)) /\ ShellFrame

NextShell ==
  \/ HMount
  \/ HPushRegistered
  \/ HPushReady
  \/ HSupabaseTested
  \/ HInitializeDone
  \/ HInitialized
  \/ HRegistered
  \/ HPermissionsChecked
  \/ HTeardown

SpecShell == InitShell /\ [][NextShell]_vars

\* C30: once the cleanup of a run of the startup effect has run, none of
\* the window listeners that run installs is registered and its
\* health-check interval is not active, also when the cleanup ran while the
\* startup was still in progress
C30_TeardownRemovesAll ==
  \A r \in 1..Len(shellRuns) :
    shellRuns[r].tornDown =>
      /\ \A l \in eventListeners : l.target = "window" => l.fn # r
      /\ r \notin intervals

\* ---------------------------------------------------------------------
\* registerServiceWorker (lib/serviceWorker.ts, utils/serviceWorker.ts)
\* ---------------------------------------------------------------------
RegisterVariants == {"lib", "utils"}

\* one call: where it is, and the listeners it has added
RegisterTask(variant, pc, onUpdateFound, onStateChange, onControllerChange) ==
  [variant |-> variant, pc |-> pc, onUpdateFound |-> onUpdateFound,
   onStateChange |-> onStateChange, onControllerChange |-> onControllerChange]

\* the call is made; without worker support it throws at once
RegisterServiceWorker(variant) ==
  /\ registerTasks' = Append(registerTasks,
       RegisterTask(variant,
                    IF registration.supported THEN "registering" ELSE "rejected",
                    FALSE, FALSE, FALSE))
  /\ UNCHANGED registration

\* the registration job of the scope: the first one installs the worker and
\* resolves register() before 'updatefound' is fired, a later one resolves
\* with the registration as it is
RegisterJob(reg) ==
  IF reg.installing \/ reg.waiting \/ reg.active
    THEN reg
    ELSE [reg EXCEPT !.installing = TRUE, !.updatefound = TRUE]

\* the code after `await navigator.serviceWorker.register(...)`
AfterRegister(task, reg) ==
  IF task.variant = "lib"
    THEN IF reg.active
           THEN [task EXCEPT !.pc = "resolved"]
           ELSE [task EXCEPT !.pc = "pending", !.onUpdateFound = TRUE]
    ELSE IF ~reg.controller
           THEN [task EXCEPT !.pc = "pending", !.onControllerChange = TRUE]
           ELSE [task EXCEPT !.pc = "resolved"]

\* register() resolves for call t; while a worker is installing the job
\* queue of the scope is busy
RegisterReturned(t) ==
  /\ registerTasks[t].pc = "registering"
  /\ ~registration.installing
  /\ registration' = RegisterJob(registration)
  /\ registerTasks' =
       [registerTasks EXCEPT ![t] = AfterRegister(@, registration')]

\* 'updatefound' is fired at the registration
OnUpdateFound(task, reg) ==
  IF task.onUpdateFound /\ reg.installing
    THEN [task EXCEPT !.onStateChange = TRUE]
    ELSE task

UpdateFound ==
  /\ registration.updatefound
  /\ registration' = [registration EXCEPT !.updatefound = FALSE]
  /\ registerTasks' =
       [t \in 1..Len(registerTasks) |-> OnUpdateFound(registerTasks[t], registration)]

\* 'statechange' is fired at the worker
OnStateChange(task, reg) ==
  IF task.onStateChange /\ reg.active /\ task.pc = "pending"
    THEN [task EXCEPT !.pc = "resolved"]
    ELSE task

\* the worker becomes installed
WorkerInstalled ==
  /\ registration.installing
  /\ ~registration.updatefound
  /\ registration' = [registration EXCEPT !.installing = FALSE, !.waiting = TRUE]
  /\ registerTasks' =
       [t \in 1..Len(registerTasks) |-> OnStateChange(registerTasks[t], registration')]

\* the worker becomes the active worker; its 'activate' handler may claim
WorkerActivated ==
  /\ registration.waiting
  /\ registration' = [registration EXCEPT !.waiting = FALSE, !.active = TRUE,
                                          !.claimPending = registration.claims]
  /\ registerTasks' =
       [t \in 1..Len(registerTasks) |-> OnStateChange(registerTasks[t], registration')]

\* 'controllerchange' is fired at navigator.serviceWorker
OnControllerChange(task) ==
  IF task.onControllerChange /\ task.pc = "pending"
    THEN [task EXCEPT !.pc = "resolved"]
    ELSE task

\* clients.claim() makes the worker the controller of the page
WorkerClaimed ==
  /\ registration.claimPending
  /\ registration' = [registration EXCEPT !.claimPending = FALSE, !.controller = TRUE]
  /\ registerTasks' =
       [t \in 1..Len(registerTasks) |-> OnControllerChange(registerTasks[t])]

\* the page loads with no registration, or with the active worker of an
\* earlier visit, which controls the page unless the load was forced
Registrations ==
  {r \in [installing : {FALSE}, waiting : {FALSE}, active : BOOLEAN,
          controller : BOOLEAN, updatefound : {FALSE}, claims : BOOLEAN,
          claimPending : BOOLEAN, supported : BOOLEAN] :
     /\ r.controller => r.active
     /\ r.claimPending => r.active /\ r.claims /\ ~r.controller
     /\ ~r.supported => ~r.active /\ ~r.claims}

InitRegister ==
  /\ InitIdle
  /\ notifications = <<>>
  /\ relayReq = NoRequest
  /\ relayOut = NoResponse
  /\ UiIdle
  /\ BackIdle
  /\ registration \in Registrations
  /\ registerTasks = <<>>
  /\ dashTest = IdleTest

RegisterFrame ==
  UNCHANGED <<serviceVars, dbVars, dashVars, relayVars, fnVars, workerVars,
              testCall, overlayVars, dialogVars, shellVars, dashTest, lastOp,
              clock>>

ERegisterServiceWorker ==
  /\ Len(registerTasks) < MaxCalls
  /\ \E variant \in RegisterVariants : RegisterServiceWorker(variant)
  /\ RegisterFrame

ERegisterReturned ==
  (\E t \in 1..Len(registerTasks) : RegisterReturned(t)) /\ RegisterFrame

EUpdateFound == UpdateFound /\ RegisterFrame

EWorkerInstalled == WorkerInstalled /\ RegisterFrame

EWorkerActivated == WorkerActivated /\ RegisterFrame

EWorkerClaimed == WorkerClaimed /\ RegisterFrame

NextRegister ==
  \/ ERegisterServiceWorker
  \/ ERegisterReturned
  \/ EUpdateFound
  \/ EWorkerInstalled
  \/ EWorkerActivated
  \/ EWorkerClaimed

\* the browser runs every queued task and the worker goes through its
\* lifecycle
SpecRegister ==
  /\ InitRegister
  /\ [][NextRegister]_vars
  /\ WF_vars(ERegisterReturned)
  /\ WF_vars(EUpdateFound)
  /\ WF_vars(EWorkerInstalled)
  /\ WF_vars(EWorkerActivated)
  /\ WF_vars(EWorkerClaimed)

RegisterPc(t) == IF t <= Len(registerTasks) THEN registerTasks[t].pc ELSE "none"

\* C31: registerServiceWorker resolves only when the registration is active
\* or controls the page, and once the worker is active every call that has
\* not thrown eventually resolves, whatever the state of the registration
\* was when register() returned
C31_ResolvesOnceActive ==
  /\ [](\A t \in 1..Len(registerTasks) :
          registerTasks[t].pc = "resolved"
            => registration.active \/ registration.controller)
  /\ \A t \in 1..MaxCalls :
       (RegisterPc(t) \in {"registering", "pending"} /\ registration.active)
         ~> (RegisterPc(t) = "resolved")

\* ---------------------------------------------------------------------
\* Dashboard: the quick-test buttons (Dashboard.tsx lines 176-224, 705-730)
\* ---------------------------------------------------------------------
QuickPriorities == {"low", "medium", "high"}

QuickFrame ==
  UNCHANGED <<listenerVars, connVars, localNotifications, initTask,
              pushSupported, registerCalls, swHandlers, channels, channelsOpened,
              dbVars, relayVars, fnVars, workerVars, testCall, overlayVars,
              dialogVars, shellVars, regVars, clock, filterVars, ackPending,
              ackAllPending, dashRealtime>>

\* the effect of the first render calls loadRecentNotifications()
MountEffect ==
  /\ ~dashTest.mounted
  /\ loadTask = "idle"
  /\ dashTest' = [dashTest EXCEPT !.mounted = TRUE]
  /\ isLoading' = TRUE
  /\ loadTask' = "sent"
  /\ lastOp' = NoResult
  /\ UNCHANGED <<notifications, unreadCount, loadData, permission>>

\* a quick-test button is pressed; the buttons are rendered disabled while
\* isLoading is true
DashSendTestNotification(priority) ==
  /\ ~isLoading
  /\ dashTest.pc = "idle"
  /\ IF ~dashTest.supported
       THEN /\ isLoading' = FALSE
            /\ dashTest' = [dashTest EXCEPT !.priority = priority]
       ELSE /\ isLoading' = TRUE
            /\ dashTest' = [dashTest EXCEPT !.priority = priority,
                              !.pc = IF permission # "granted"
                                       THEN "permission" ELSE "sending"]
  /\ lastOp' = NoResult
  /\ UNCHANGED <<notifications, unreadCount, loadTask, loadData, permission>>

\* Notification.requestPermission() settles
DashTestPermission(answer) ==
  /\ dashTest.pc = "permission"
  /\ permission' = answer
  /\ IF answer # "granted"
       THEN /\ isLoading' = FALSE
            /\ dashTest' = [dashTest EXCEPT !.pc = "idle"]
       ELSE /\ isLoading' = isLoading
            /\ dashTest' = [dashTest EXCEPT !.pc = "sending"]
  /\ lastOp' = NoResult
  /\ UNCHANGED <<notifications, unreadCount, loadTask, loadData>>

\* pushService.sendTestNotification(priority) settles; on success the list
\* is loaded again, which sets isLoading before its await
DashTestSent(ok) ==
  /\ dashTest.pc = "sending"
  /\ IF ok
       THEN /\ isLoading' = TRUE
            /\ dashTest' = [dashTest EXCEPT !.pc = "loading"]
       ELSE /\ isLoading' = FALSE
            /\ dashTest' = [dashTest EXCEPT !.pc = "idle"]
  /\ lastOp' = NoResult
  /\ UNCHANGED <<notifications, unreadCount, loadTask, loadData, permission>>

\* the select of the nested loadRecentNotifications() settles: the list and
\* the count are replaced, its finally and the finally of
\* sendTestNotification both clear isLoading
DashTestLoaded(ok) ==
  /\ dashTest.pc = "loading"
  /\ IF ok
       THEN /\ notifications' = RowsNewestFirst(db, NumRows)
            /\ unreadCount' = Cardinality(Unacknowledged(RowsNewestFirst(db, NumRows)))
       ELSE /\ notifications' = <<>>
            /\ unreadCount' = 0
  /\ isLoading' = FALSE
  /\ dashTest' = [dashTest EXCEPT !.pc = "idle"]
  /\ lastOp' = NoResult
  /\ UNCHANGED <<loadTask, loadData, permission>>

InitQuick ==
  /\ InitIdle
  /\ relayReq = NoRequest
  /\ relayOut = NoResponse
  /\ UiIdle
  /\ BackIdle
  /\ RegIdle
  /\ notifications = <<>>
  /\ \E supported \in BOOLEAN :
       dashTest = [IdleTest EXCEPT !.supported = supported, !.mounted = FALSE]

QMountEffect == MountEffect /\ QuickFrame

QLoadAnswered == (\E ok \in BOOLEAN : LoadAnswered(ok)) /\ dashTest.mounted

QLoadApply == LoadApply

QIntakeInsert ==
  (\E id \in RowIds : IntakeInsert(id)) /\ UNCHANGED <<clock, dashVars, relayVars, edgeVars>>

QSendTestNotification ==
  (\E priority \in QuickPriorities : DashSendTestNotification(priority)) /\ QuickFrame

QTestPermission ==
  (\E answer \in Permissions : DashTestPermission(answer)) /\ QuickFrame

QTestSent == (\E ok \in BOOLEAN : DashTestSent(ok)) /\ QuickFrame

QTestLoaded == (\E ok \in BOOLEAN : DashTestLoaded(ok)) /\ QuickFrame

NextQuick ==
  \/ QMountEffect
  \/ QLoadAnswered
  \/ QLoadApply
  \/ QIntakeInsert
  \/ QSendTestNotification
  \/ QTestPermission
  \/ QTestSent
  \/ QTestLoaded

SpecQuick == InitQuick /\ [][NextQuick]_vars

TestInFlight == dashTest.pc \in {"permission", "sending", "loading"}

\* C32: isLoading, which disables the quick-test buttons, is true as long as
\* a sendTestNotification request is in flight, also while a load of the
\* recent notifications runs beside it, and it is false when the request
\* has ended, on every path
C32_DisabledWhileInFlight ==
  /\ [](TestInFlight => isLoading)
  /\ [][TestInFlight /\ ~TestInFlight' => ~isLoading']_vars

\* ---------------------------------------------------------------------
\* Dashboard: a burst of api-notification events fills the list
\* ---------------------------------------------------------------------
\* the events arrive once the load of the mount effect has settled
BApiNotification ==
  /\ clock <= MaxBurst
  /\ loadTask = "idle"
  /\ ApiNotification(clock, "absent")
  /\ clock' = clock + 1

BIntakeInsert == \E id \in RowIds : DashIntakeInsert(id)

BRealtimeInsert == DashRealtimeInsert

BLoadStart == clock = 1 /\ LoadStart

BLoadAnswered == \E ok \in BOOLEAN : LoadAnswered(ok)

BLoadApply == LoadApply

NextBurst ==
  \/ BApiNotification
  \/ BIntakeInsert
  \/ BRealtimeInsert
  \/ BLoadStart
  \/ BLoadAnswered
  \/ BLoadApply

SpecBurst == InitDash /\ [][NextBurst]_vars

\* the first n items of a list
FirstItems(list, n) == [i \in 1..(IF Len(list) < n THEN Len(list) ELSE n) |-> list[i]]

\* C33: when the INSERT callback of the Dashboard runs for a row whose id is
\* in the list, the list and the unread count stay as they are; for a new
\* id the row is put in front of the first 49 items, the list has at most
\* 50 items and the unread count grows by exactly 1
C33_RealtimeDeduplicates ==
  [][(dashRealtime # <<>> /\ dashRealtime' = Tail(dashRealtime))
       => LET id == Head(dashRealtime) IN
            IF \E i \in 1..Len(notifications) : notifications[i].id = id
              THEN /\ notifications' = notifications
                   /\ unreadCount' = unreadCount
              ELSE /\ notifications'[1].id = id
                   /\ Tail(notifications') = FirstItems(notifications, 49)
                   /\ Len(notifications') <= 50
                   /\ unreadCount' = unreadCount + 1]_vars

\* the callback has put a row in front of a full list
C33_Witness ==
  /\ Len(notifications) = 50
  /\ notifications[1].id \in RowIds
  /\ notifications[2].id \notin RowIds
  /\ dashRealtime = <<>>

\* C34: when the initialize() calls of the shell and of the overlay overlap,
\* the service is left with at most one realtime channel and at most one
\* 'message' handler on the worker container, so an insert or a worker
\* message reaches each listener once
C34_OneChannelOneHandler ==
  /\ Cardinality(channels) <= 1
  /\ swHandlers <= 1

\* C35: when the Dashboard has no load and no acknowledge request in flight
\* and no realtime event waiting, the unread count is the number of items
\* of the list that are not acknowledged
C35_UnreadCountMatchesList ==
  (loadTask = "idle" /\ InFlight = 0 /\ dashRealtime = <<>>)
    => unreadCount = Cardinality(Unacknowledged(notifications))

\* ---------------------------------------------------------------------
\* The overlay on a connected service: cards of table rows
\* ---------------------------------------------------------------------
InitCards == InitOverlay /\ isSupabaseAvailable

KIntakeInsert ==
  /\ QueueRoom
  /\ \E id \in RowIds : IntakeInsert(id)
  /\ UNCHANGED <<clock, dashVars, relayVars, edgeVars>>

KDeliverRealtime ==
  /\ realtime # <<>>
  /\ Head(realtime).kind = "INSERT" => Len(localNotifications) < MaxCached
  /\ DeliverRealtime
  /\ OverlayListener(lastOp'.invoked, Head(realtime).new)
  /\ UNCHANGED <<clock, dismissTasks>>
  /\ OverlayFrame

\* the worker reports a push for a row; the overlay shows no card for it
KPushMessage ==
  /\ Len(localNotifications) < MaxCached
  /\ \E id \in RowIds : db[id].exists /\ HandlePushReceived(Notif(id, FALSE))
  /\ UNCHANGED <<clock, dashVars, relayVars, edgeVars>>

KDismissNotification ==
  /\ Len(dismissTasks) < MaxDismiss
  /\ \E k \in 1..Len(overlayNotifications) : DismissNotification(k)
  /\ UNCHANGED clock
  /\ OverlayFrame

KDismissMarkSettled ==
  /\ QueueRoom
  /\ \E t \in 1..Len(dismissTasks), ok \in BOOLEAN : DismissMarkSettled(t, ok)
  /\ UNCHANGED clock
  /\ OverlayFrame

KDismissTimer ==
  /\ \E t \in 1..Len(dismissTasks) : DismissTimer(t)
  /\ UNCHANGED <<serviceVars, dbVars, lastOp>>
  /\ OverlayFrame

NextCards ==
  \/ KIntakeInsert
  \/ KDeliverRealtime
  \/ KPushMessage
  \/ KDismissNotification
  \/ KDismissMarkSettled
  \/ KDismissTimer

SpecCards == InitCards /\ [][NextCards]_vars

Visible(list, id) == \E i \in 1..Len(list) : list[i].id = id /\ list[i].isVisible

Dismissed(id) ==
  \E t \in 1..Len(dismissTasks) :
    dismissTasks[t].id = id /\ dismissTasks[t].pc \in {"hidden", "removed"}

\* C36: once the card of a notification has been dismissed, no card with
\* its id becomes visible again, except by the delivery of an INSERT event;
\* the UPDATE event of the dismissal's own mark-as-read write does not
\* bring it back
C36_DismissedStaysHidden ==
  [][\A id \in RowIds :
       (/\ Dismissed(id)
        /\ ~Visible(overlayNotifications, id)
        /\ Visible(overlayNotifications', id))
         => (realtime # <<>> /\ Head(realtime).kind = "INSERT")]_vars

\* getUnreadCount() without a database:
\* localNotifications.filter(n => !n.is_read).length
GetUnreadCountLocal == Cardinality({i \in 1..Len(localNotifications) : ~localNotifications[i].is_read})

\* C37: without a database, when markAsRead(id) has returned no cached item
\* with that id is unread, so getUnreadCount does not count the id, also
\* when the id is in the cache more than once
C37_LocalMarkAsRead ==
  (~isSupabaseAvailable /\ lastOp.op = "markAsRead" /\ lastOp.ret = "void")
    => /\ \A i \in 1..Len(localNotifications) :
            localNotifications[i].id = lastOp.arg => localNotifications[i].is_read
       /\ GetUnreadCountLocal =
            Cardinality({i \in 1..Len(localNotifications) :
                           /\ ~localNotifications[i].is_read
                           /\ localNotifications[i].id # lastOp.arg})

\* ---------------------------------------------------------------------
\* The fan-out beside the subscription intake: the push service's answer
\* and the delete of send-notification.js are two awaits (lines 47, 56)
\* ---------------------------------------------------------------------
\* webpush.sendNotification settles for a task; after 410 or "unsubscribed"
\* the delete is still to be issued
AttemptAnswered(task, outcome) ==
  IF Gone(outcome)
    THEN [task EXCEPT !.attempts = @ + 1, !.gone = TRUE]
    ELSE Attempt(task, outcome, FALSE)

FanoutAttemptAnswered(i, outcome) ==
  /\ fanout.pc = "sending"
  /\ fanout.variant = 1
  /\ i \in 1..Len(fanout.tasks)
  /\ ~fanout.tasks[i].settled
  /\ ~fanout.tasks[i].gone
  /\ fanout' = [fanout EXCEPT !.tasks[i] = AttemptAnswered(@, outcome)]
  /\ lastOp' = Op("sendNotification", i, outcome, <<>>)
  /\ UNCHANGED <<serviceVars, dbVars, dashVars, relayVars, subscriptions, fnReq,
                 fnOut, workerVars, uiVars, clock>>

\* delete().eq('endpoint', subscription.endpoint) settles and
\* sendNotification returns false
FanoutDeleteSettled(i, delOk) ==
  /\ fanout.pc = "sending"
  /\ i \in 1..Len(fanout.tasks)
  /\ fanout.tasks[i].gone
  /\ ~fanout.tasks[i].settled
  /\ fanout' = [fanout EXCEPT !.tasks[i].settled = TRUE,
                              !.tasks[i].deleted = delOk]
  /\ subscriptions' =
       IF delOk THEN DeleteEndpoint(subscriptions, fanout.tasks[i].endpoint)
       ELSE subscriptions
  /\ lastOp' = Op("deleteSubscription", i, BoolStr(delOk), <<>>)
  /\ UNCHANGED <<serviceVars, dbVars, dashVars, relayVars, fnReq, fnOut,
                 workerVars, uiVars, clock>>

\* a fan-out request for the user of the table
UReceive ==
  FanoutReceive(FnRequest("fanout", 1, "POST",
                          [EmptyObject EXCEPT !.user_id = "u1", !.title = "t",
                                              !.message = "m"],
                          TRUE, TRUE))

UAttemptAnswered ==
  \E i \in 1..Len(fanout.tasks), outcome \in Outcomes :
    FanoutAttemptAnswered(i, outcome)

UDeleteSettled ==
  \E i \in 1..Len(fanout.tasks), delOk \in BOOLEAN : FanoutDeleteSettled(i, delOk)

URespond == FanoutRespond

\* a browser subscribes, or subscribes again, through subscribe.js
USubscribe ==
  \E e \in Endpoints, ok \in BOOLEAN, t \in Times :
    SubscribeHandler(FnRequest("subscribe", 1, "POST",
                               [EmptyObject EXCEPT !.endpoint = e, !.keys = "k1"],
                               TRUE, ok), t)

NextResubscribe ==
  \/ UReceive
  \/ UAttemptAnswered
  \/ UDeleteSettled
  \/ URespond
  \/ USubscribe

SpecResubscribe == InitFunctions /\ [][NextResubscribe]_vars

\* C38: when the intake has upserted the row of an endpoint after the
\* fan-out's delivery to it failed with 410 and before the fan-out's delete
\* is carried out, the delete does not remove that row
C38_ResubscribedRowKept ==
  [][\A i \in 1..Len(fanout.tasks) :
       (/\ fanout.pc = "sending"
        /\ fanout.tasks[i].gone
        /\ ~fanout.tasks[i].settled
        /\ fanout'.tasks[i].settled
        /\ lastOp.op = "subscribe"
        /\ fnReq.body.endpoint = fanout.tasks[i].endpoint
        /\ fnOut.status = 200)
         => RowsFor(subscriptions', fanout.tasks[i].endpoint)
              = RowsFor(subscriptions, fanout.tasks[i].endpoint)]_vars

\* C39: a row the realtime subscription has put in the Dashboard's list
\* while a load of the recent notifications was in flight is in the list
\* when the load has completed (the rows of the table number fewer than 50,
\* and every row put in the list before the select was answered is in the
\* answer)
C39_RealtimeRowSurvivesLoad ==
  [][(loadTask = "answered" /\ loadTask' = "idle")
       => \A id \in RowIds :
            Exists(notifications, id) => Exists(notifications', id)]_vars

\* the rows a step has written
Written == {id \in RowIds : db[id].exists /\ db'[id] # db[id]}

\* C40: after every completed acknowledge of the Dashboard (one row or all)
\* and every completed markAsRead or markAllAsRead of the unified service,
\* the is_read flag and the acknowledged flag of each row the operation has
\* written agree: an acknowledged row is not counted by the unread queries
\* on is_read, and a row marked read is acknowledged
C40_ReadFlagsAgree ==
  [][lastOp'.op \in {"dashboardAckRow", "dashboardAckAllRows",
                     "markAsReadSettled", "markAllAsReadSettled"}
       => \A id \in Written : db'[id].is_read = db'[id].acknowledged]_vars

====
